---------------------------- MODULE Spec2Model ----------------------------
(***************************************************************************)
(* Jetflare (src/src/index.ts): the buffered-HTTP dispatch of              *)
(* JetflareCommon.createHttpFunction with its CacheManager, its            *)
(* interceptor registry and its timeout handling.                          *)
(*                                                                         *)
(* Strings are sequences of one-character strings, so that includes,       *)
(* replace, the URL encoders and the wildcard match are computed the way   *)
(* the code computes them.  A JS value is a record [t, s]: its type tag    *)
(* and its text.                                                           *)
(***************************************************************************)
EXTENDS Integers, Sequences, FiniteSets, TLC

VARIABLES
    cache,            \* CacheManager.cache: the Map, in insertion order
    now,              \* Date.now()
    defaultTimeout,   \* JetflareCommon.defaultTimeout
    interceptors,     \* JetflareCommon.interceptors: three ordered Sets
    calls,            \* the invocations of the route callables
    client,           \* the caller of jetflare.cache: the objects it holds
    sockets,          \* WebSocketManager: connections and eventHandlers
    defaultHeaders,   \* JetflareCommon.defaultHeaders
    construction,     \* a further Jetflare(origin, routes) and what came of it
    origin,           \* JetflareCommon.origin
    streams           \* the handles of the sse routes and their EventSources

vars == <<cache, now, defaultTimeout, interceptors, calls, client, sockets,
         defaultHeaders, construction, origin, streams>>

----------------------------------------------------------------------------
(* Bounds of the model. *)

\* invocations of route callables in one behaviour
MaxCalls == 2
\* the clock stops here
MaxTime == 2
\* interceptors registered per stage
MaxInterceptors == 2
\* direct operations on jetflare.cache in one behaviour, the bulk fill apart
MaxOps == 4
\* calls on the socket manager in one behaviour
MaxSocketOps == 4
\* WebSocket objects constructed in one behaviour
MaxSockets == 3
\* calls of setDefaultHeaders in one behaviour
MaxDefaults == 2
\* calls on the handles of the sse routes in one behaviour
MaxStreamOps == 4
\* handles made by the callables of the sse routes
MaxHandles == 2
\* EventSources constructed in one behaviour
MaxSources == 3

----------------------------------------------------------------------------
(* Strings. *)

RECURSIVE Concat(_)
Concat(ss) ==
    IF ss = <<>> THEN <<>> ELSE Head(ss) \o Concat(Tail(ss))

\* String.prototype.includes
Includes(s, p) ==
    \E i \in 1..(Len(s) - Len(p) + 1) : SubSeq(s, i, i + Len(p) - 1) = p

\* String.prototype.indexOf, 1-based; 0 when p does not occur
IndexOf(s, p) ==
    IF Includes(s, p)
    THEN CHOOSE i \in 1..(Len(s) - Len(p) + 1) :
            /\ SubSeq(s, i, i + Len(p) - 1) = p
            /\ \A j \in 1..(i - 1) : SubSeq(s, j, j + Len(p) - 1) # p
    ELSE 0

\* String.prototype.replace with a string pattern: the first occurrence only
Replace(s, p, r) ==
    LET i == IndexOf(s, p)
    IN  IF i = 0 THEN s
        ELSE SubSeq(s, 1, i - 1) \o r \o SubSeq(s, i + Len(p), Len(s))

\* String.prototype.toLowerCase, as the Headers of fetch apply it to names
LowerOf(ch) ==
    CASE ch = "A" -> "a" [] ch = "C" -> "c" [] ch = "I" -> "i" [] ch = "K" -> "k"
      [] ch = "P" -> "p" [] ch = "T" -> "t" [] ch = "X" -> "x" [] OTHER -> ch
ToLowerCase(s) == [i \in 1..Len(s) |-> LowerOf(s[i])]

Unreserved ==
    {"a", "b", "d", "e", "g", "i", "l", "m", "n", "p", "r", "s", "t", "u",
     "0", "1", "2", "-", "_", ".", "*"}

PercentCode(ch) ==
    CASE ch = "/" -> <<"%", "2", "F">>
      [] ch = ":" -> <<"%", "3", "A">>
      [] ch = "?" -> <<"%", "3", "F">>
      [] ch = "=" -> <<"%", "3", "D">>
      [] ch = "&" -> <<"%", "2", "6">>
      [] ch = "[" -> <<"%", "5", "B">>
      [] ch = "]" -> <<"%", "5", "D">>
      [] ch = " " -> <<"%", "2", "0">>
      [] OTHER -> <<ch>>

\* encodeURIComponent
EncodeURIComponent(s) ==
    Concat([i \in 1..Len(s) |->
              IF s[i] \in Unreserved THEN <<s[i]>> ELSE PercentCode(s[i])])

\* the application/x-www-form-urlencoded serializer of URLSearchParams
FormEncode(s) ==
    Concat([i \in 1..Len(s) |->
              IF s[i] \in Unreserved THEN <<s[i]>>
              ELSE IF s[i] = " " THEN <<"+">> ELSE PercentCode(s[i])])

----------------------------------------------------------------------------
(* JS values. *)

Str(s) == [t |-> "string", s |-> s]
Num(s) == [t |-> "number", s |-> s]
NullV == [t |-> "null", s |-> <<>>]
UndefinedV == [t |-> "undefined", s |-> <<>>]
Arr(s) == [t |-> "array", s |-> s]

\* String(value)
String(v) ==
    IF v.t = "null" THEN <<"n", "u", "l", "l">> ELSE v.s

\* ToBoolean(value), as `if (cached)` applies it
Truthy(v) ==
    CASE v.t \in {"null", "undefined"} -> FALSE
      [] v.t = "number" -> v.s # <<"0">>
      [] v.t = "string" -> v.s # <<>>
      [] OTHER -> TRUE

Digits == {"0", "1", "2"}

\* Response.json(): [ok, v]; ok = FALSE when the text is not JSON
JsonParse(text) ==
    CASE text = <<"[", "]">> -> [ok |-> TRUE, v |-> Arr(text)]
      [] text = <<"n", "u", "l", "l">> -> [ok |-> TRUE, v |-> NullV]
      [] text # <<>> /\ (\A i \in 1..Len(text) : text[i] \in Digits) /\ (Len(text) = 1 \/ text[1] # "0") ->
            [ok |-> TRUE, v |-> Num(text)]
      [] Len(text) >= 2 /\ text[1] = "\"" /\ text[Len(text)] = "\"" ->
            [ok |-> TRUE, v |-> Str(SubSeq(text, 2, Len(text) - 1))]
      [] OTHER -> [ok |-> FALSE, v |-> NullV]

\* JSON.stringify(value)
JsonStringify(v) ==
    CASE v.t = "null" -> <<"n", "u", "l", "l">>
      [] v.t = "string" -> <<"\"">> \o v.s \o <<"\"">>
      [] OTHER -> v.s

\* response.clone().json().catch(() => response.clone().text())
DecodeBody(text) ==
    IF JsonParse(text).ok THEN JsonParse(text).v ELSE Str(text)

\* a value the caller can hold and mutate: an object with its identity
\* (ref) and its contents; two records with one ref are one object
Object(ref, s) == [t |-> "object", s |-> s, ref |-> ref]
\* a function: a value the structured clone algorithm refuses
Function == [t |-> "function", s |-> <<>>]

\* structuredClone(value) throws a DataCloneError
Uncloneable(v) == v.t = "function"

\* structuredClone(value): a deep copy, an object of its own (ref) with the
\* contents of the original; a primitive is itself
StructuredClone(v, ref) ==
    IF "ref" \in DOMAIN v THEN [v EXCEPT !.ref = ref] ELSE v

----------------------------------------------------------------------------
(* CacheManager. *)

maxSize == 100
DefaultTtl == 300000

CacheKeys(c) == {c[i].key : i \in 1..Len(c)}

CacheIndex(c, key) ==
    IF key \in CacheKeys(c) THEN CHOOSE i \in 1..Len(c) : c[i].key = key ELSE 0

CacheDelete(c, key) ==
    SelectSeq(c, LAMBDA e : e.key # key)

\* set with the caller's object stored as it is, no copy taken
CacheSetByReference(c, key, data, ttl, t, ref) ==
    LET c1 == IF Len(c) >= maxSize /\ c[1].key # <<>> THEN CacheDelete(c, c[1].key) ELSE c
        e == [key |-> key, data |-> data, expires |-> t + ttl]
        i == CacheIndex(c1, key)
    IN  [threw |-> FALSE, cache |-> IF i = 0 THEN Append(c1, e) ELSE [c1 EXCEPT ![i] = e]]

\* CacheManager.set(key, data, ttl) at time t, the clone being the object
\* ref: [threw, cache]; the eviction precedes structuredClone, which throws
\* before Map.set is reached
CacheSet(c, key, data, ttl, t, ref) ==
    LET c1 == IF Len(c) >= maxSize /\ c[1].key # <<>> THEN CacheDelete(c, c[1].key) ELSE c
        e == [key |-> key, data |-> StructuredClone(data, ref), expires |-> t + ttl]
        i == CacheIndex(c1, key)
    IN  IF Uncloneable(data) THEN [threw |-> TRUE, cache |-> c1]
        ELSE [threw |-> FALSE,
              cache |-> IF i = 0 THEN Append(c1, e) ELSE [c1 EXCEPT ![i] = e]]

\* get that answers null for an expired entry and leaves it in the Map
CacheGetLeavingExpired(c, key, t, ref) ==
    LET i == CacheIndex(c, key)
    IN  IF i = 0 \/ t > c[i].expires THEN [value |-> NullV, cache |-> c]
        ELSE [value |-> StructuredClone(c[i].data, ref), cache |-> c]

\* CacheManager.get(key) at time t, the clone being the object ref: the
\* value returned and the cache left
CacheGet(c, key, t, ref) ==
    LET i == CacheIndex(c, key)
    IN  IF i = 0 THEN [value |-> NullV, cache |-> c]
        ELSE IF t > c[i].expires THEN [value |-> NullV, cache |-> CacheDelete(c, key)]
        ELSE [value |-> StructuredClone(c[i].data, ref), cache |-> c]

\* new RegExp(p.replace(/\*/g, ".*")) throws a SyntaxError
\* (an unterminated group; the patterns of the model hold no other
\* metacharacter than ".", "*" and "(")
RegExpInvalid(p) ==
    \E i \in 1..Len(p) : p[i] = "("

\* the pattern, read as a regular expression, matches a prefix of s
RECURSIVE MatchHere(_, _)
MatchHere(p, s) ==
    IF p = <<>> THEN TRUE
    ELSE IF Head(p) = "*"
    THEN \E k \in 0..Len(s) : MatchHere(Tail(p), SubSeq(s, k + 1, Len(s)))
    ELSE /\ s # <<>>
         /\ Head(p) = "." \/ Head(p) = Head(s)
         /\ MatchHere(Tail(p), Tail(s))

\* key.match(new RegExp(p.replace(/\*/g, ".*"))): an unanchored search
RegExpMatch(key, p) ==
    \E i \in 1..(Len(key) + 1) : MatchHere(p, SubSeq(key, i, Len(key)))

\* patterns.some(p => key.includes(p) || key.match(...)):
\* "hit", "miss", or "throw" when a pattern that has to be compiled is invalid
RECURSIVE PatternsSome(_, _)
PatternsSome(key, patterns) ==
    IF patterns = <<>> THEN "miss"
    ELSE IF Includes(key, Head(patterns)) THEN "hit"
    ELSE IF RegExpInvalid(Head(patterns)) THEN "throw"
    ELSE IF RegExpMatch(key, Head(patterns)) THEN "hit"
    ELSE PatternsSome(key, Tail(patterns))

\* invalidate as a deletion of the entries keyed by the patterns themselves
CacheInvalidateExactKeys(c, patterns) ==
    [threw |-> FALSE,
     cache |-> SelectSeq(c, LAMBDA e : \A i \in 1..Len(patterns) : e.key # patterns[i])]

\* CacheManager.invalidate(pattern | patterns)
\* the loop over this.cache.keys() deletes the keys that hit, up to the
\* first key for which compiling a pattern throws: [threw, cache]
CacheInvalidate(c, patterns) ==
    LET some == [i \in 1..Len(c) |-> PatternsSome(c[i].key, patterns)]
        throwers == {i \in 1..Len(c) : some[i] = "throw"}
        stop == IF throwers = {} THEN Len(c) + 1
                ELSE CHOOSE i \in throwers : \A j \in throwers : i <= j
        hits == {c[i].key : i \in {k \in 1..(stop - 1) : some[k] = "hit"}}
    IN  [threw |-> throwers # {}, cache |-> SelectSeq(c, LAMBDA e : e.key \notin hits)]


----------------------------------------------------------------------------
(* Route definitions and call payloads. *)

\* an object of the payload (params, query): present or undefined, and its
\* own entries [k, v] in enumeration order
Undefined == [present |-> FALSE, entries |-> <<>>]
Obj(entries) == [present |-> TRUE, entries |-> entries]
Entry(k, v) == [k |-> k, v |-> v]

apiOrigin == <<"h", "t", "t", "p", ":", "/", "/", "a", "p", "i">>

usersPath == <<"/", "u", "s", "e", "r", "s">>
userByIdPath == <<"/", "u", "s", "e", "r", "s", "/", ":", "i", "d">>
usersListKey == <<"u", "s", "e", "r", "s", "-", "l", "i", "s", "t">>
idKey == <<"i", "d">>
pageKey == <<"p", "a", "g", "e">>
limitKey == <<"l", "i", "m", "i", "t">>
\* an invalidation pattern that is no regular expression
openGroup == <<"u", "s", "e", "r", "s", "(">>

\* payload.cache: undefined, false, true or {ttl, key}; ttl = 0 and key = ""
\* stand for the absent fields, which `||` treats alike
CacheUndefined == [t |-> "undefined", ttl |-> 0, key |-> <<>>]
CacheFalse == [t |-> "false", ttl |-> 0, key |-> <<>>]
CacheTrue == [t |-> "true", ttl |-> 0, key |-> <<>>]
CacheObj(ttl, key) == [t |-> "object", ttl |-> ttl, key |-> key]

\* the static and the dynamic cache key of the routes that declare `cache`
allUsersListKey == <<"a", "l", "l", "-", "u", "s", "e", "r", "s", "-", "l", "i", "s", "t">>
userIdKey == <<"u", "s", "e", "r", "-", ":", "i", "d">>

\* header names, and the header makeRequest adds to a JSON body
xApiKey == <<"X", "-", "A", "P", "I", "-", "K", "e", "y">>
accept == <<"a", "c", "c", "e", "p", "t">>
contentType == <<"C", "o", "n", "t", "e", "n", "t", "-", "T", "y", "p", "e">>
applicationJson ==
    <<"a", "p", "p", "l", "i", "c", "a", "t", "i", "o", "n", "/", "j", "s", "o", "n">>

\* the route table handed to Jetflare(origin, routes): the routes of the
\* tests, a route with an invalid pattern, the routes that declare
\* `cache` and a placeholder in `invalidates`, and a route with headers
routes ==
    [getUsers |-> [path |-> usersPath, method |-> "get", invalidates |-> <<>>,
                   cache |-> CacheUndefined],
     getUserById |-> [path |-> userByIdPath, method |-> "get", invalidates |-> <<>>,
                      cache |-> CacheUndefined],
     createUser |-> [path |-> usersPath, method |-> "post",
                     invalidates |-> <<usersPath, usersListKey>>, cache |-> CacheUndefined],
     deleteUser |-> [path |-> userByIdPath, method |-> "delete",
                     invalidates |-> <<openGroup>>, cache |-> CacheUndefined],
     GET_users |-> [path |-> usersPath, method |-> "get", invalidates |-> <<>>,
                    cache |-> CacheObj(300000, allUsersListKey)],
     GET_user_by_id |-> [path |-> userByIdPath, method |-> "get", invalidates |-> <<>>,
                         cache |-> CacheObj(60000, userIdKey)],
     PUT_user |-> [path |-> userByIdPath, method |-> "put",
                   invalidates |-> <<userIdKey, allUsersListKey>>, cache |-> CacheUndefined],
     getKeyed |-> [path |-> usersPath, method |-> "get", invalidates |-> <<>>,
                   cache |-> CacheUndefined,
                   headers |-> Obj(<<Entry(xApiKey, <<"r">>), Entry(accept, <<"r">>)>>)]]

RouteKeys == DOMAIN routes

\* payload.body: undefined, or the kinds of its fields
\* ("file": a File, "files": an array of Files, "text": anything else)
NoBody == [present |-> FALSE, fields |-> <<>>]
Body(fields) == [present |-> TRUE, fields |-> fields]

\* a payload with nothing set; timeout = 0 and retry = 0 stand for the
\* absent (or zero, equally falsy) timeout and retry attempts
EmptyPayload ==
    [params |-> Undefined, query |-> Undefined, cache |-> CacheUndefined,
     timeout |-> 0, retry |-> 0, signal |-> FALSE, body |-> NoBody,
     headers |-> Undefined]

----------------------------------------------------------------------------
(* JetflareCommon.buildCacheKey, flattenQuery, buildUrl. *)

IndexText == <<"0", "1", "2">>

\* result[k] = v on a Record<string, string>: own keys keep their first place
Put(result, k, v) ==
    IF \E i \in 1..Len(result) : result[i].k = k
    THEN [i \in 1..Len(result) |-> IF result[i].k = k THEN Entry(k, v) ELSE result[i]]
    ELSE Append(result, Entry(k, v))

\* Object.assign(result, more)
RECURSIVE Assign(_, _)
Assign(result, more) ==
    IF more = <<>> THEN result
    ELSE Assign(Put(result, Head(more).k, Head(more).v), Tail(more))

\* for (const key in obj) of an object or an array value
OwnEntries(v) ==
    IF v.t = "array"
    THEN [i \in 1..Len(v.items) |-> Entry(<<IndexText[i]>>, v.items[i])]
    ELSE v.entries

RECURSIVE FlattenInto(_, _, _)
FlattenInto(result, entries, prefix) ==
    IF entries = <<>> THEN result
    ELSE LET e == Head(entries)
             prefixedKey == IF prefix # <<>> THEN prefix \o <<"[">> \o e.k \o <<"]">> ELSE e.k
             r1 == IF e.v.t \in {"object", "array"}
                   THEN Assign(result, FlattenInto(<<>>, OwnEntries(e.v), prefixedKey))
                   ELSE Put(result, prefixedKey, String(e.v))
         IN  FlattenInto(r1, Tail(entries), prefix)

\* JetflareCommon.flattenQuery(obj, prefix)
flattenQuery(entries, prefix) == FlattenInto(<<>>, entries, prefix)

\* new URLSearchParams(pairs).toString()
RECURSIVE SearchParamsToString(_)
SearchParamsToString(pairs) ==
    IF pairs = <<>> THEN <<>>
    ELSE FormEncode(Head(pairs).k) \o <<"=">> \o FormEncode(Head(pairs).v)
         \o (IF Len(pairs) > 1 THEN <<"&">> ELSE <<>>)
         \o SearchParamsToString(Tail(pairs))

\* the loop of buildCacheKey over Object.entries(payload.params)
RECURSIVE SubstituteParams(_, _)
SubstituteParams(key, entries) ==
    IF entries = <<>> THEN key
    ELSE SubstituteParams(Replace(key, <<":">> \o Head(entries).k, String(Head(entries).v)),
                          Tail(entries))

\* JetflareCommon.buildCacheKey(routeDef, payload, cacheConfig)
buildCacheKey(routeDef, payload, cacheConfig) ==
    LET key0 == IF cacheConfig.key # <<>> THEN cacheConfig.key ELSE routeDef.path
        key1 == IF payload.params.present
                THEN SubstituteParams(key0, payload.params.entries) ELSE key0
        queryString == IF payload.query.present
                       THEN SearchParamsToString(flattenQuery(payload.query.entries, <<>>))
                       ELSE <<>>
    IN  IF queryString # <<>> THEN key1 \o <<"?">> \o queryString ELSE key1

\* the loop of buildUrl over Object.entries(payload.params):
\* [threw, param, path]
RECURSIVE ReplaceParams(_, _)
ReplaceParams(path, entries) ==
    IF entries = <<>> THEN [threw |-> FALSE, param |-> <<>>, path |-> path]
    ELSE IF Head(entries).v.t = "null"
    THEN [threw |-> TRUE, param |-> Head(entries).k, path |-> path]
    ELSE ReplaceParams(Replace(path, <<":">> \o Head(entries).k,
                               EncodeURIComponent(String(Head(entries).v))),
                       Tail(entries))

\* the url.searchParams.append calls of buildUrl, as [k, v] pairs
RECURSIVE AppendQuery(_)
AppendQuery(entries) ==
    IF entries = <<>> THEN <<>>
    ELSE LET e == Head(entries)
             mine == CASE e.v.t = "null" -> <<>>
                       [] e.v.t = "array" ->
                            [i \in 1..Len(e.v.items) |-> Entry(e.k, String(e.v.items[i]))]
                       [] e.v.t = "object" ->
                            <<Entry(e.k, <<"[", "o", "b", "j", "e", "c", "t", " ",
                                           "O", "b", "j", "e", "c", "t", "]">>)>>
                       [] OTHER -> <<Entry(e.k, String(e.v))>>
         IN  mine \o AppendQuery(Tail(entries))

\* JetflareCommon.buildUrl(routeDef, payload): [threw, param, url]
buildUrl(routeDef, payload) ==
    LET r == IF payload.params.present
             THEN ReplaceParams(routeDef.path, payload.params.entries)
             ELSE [threw |-> FALSE, param |-> <<>>, path |-> routeDef.path]
        q == IF payload.query.present
             THEN SearchParamsToString(AppendQuery(payload.query.entries)) ELSE <<>>
    IN  IF r.threw THEN [threw |-> TRUE, param |-> r.param, url |-> <<>>]
        ELSE [threw |-> FALSE, param |-> <<>>,
              url |-> origin \o r.path \o (IF q # <<>> THEN <<"?">> \o q ELSE <<>>)]


----------------------------------------------------------------------------
(* Interceptors.  A registered function is named; what it returns is the   *)
(* value it was given with its name appended to the value's `by`, so the   *)
(* chain of applications can be read off the result.                       *)

\* a request interceptor that throws instead of returning a configuration
RequestThrowers == {"rejectRequest"}
\* a response interceptor that throws
ResponseThrowers == {"rejectResponse"}
\* a response interceptor that reads the body (response.json()), which
\* leaves the Response disturbed
BodyReaders == {"readBody"}
\* an error interceptor that re-throws the error instead of returning it
ErrorThrowers == {"rethrow"}

\* what a request interceptor returns: the configuration it was given,
\* marked, and for "addPage" with page=1 merged into its query
RequestInterceptor(f, config) ==
    LET marked == [config EXCEPT !.by = Append(@, f)]
    IN  IF f = "addPage"
        THEN [marked EXCEPT !.query = Obj(Put(@.entries, pageKey, Num(<<"1">>)))]
        ELSE marked

\* what a response interceptor returns: the JetResponse it was given,
\* marked, its body disturbed when the interceptor has read it
ResponseInterceptor(f, jetResponse) ==
    [jetResponse EXCEPT !.by = Append(@, f), !.bodyUsed = @ \/ f \in BodyReaders]

\* what an error interceptor returns: the error it was given, marked
ErrorInterceptor(f, error) ==
    [error EXCEPT !.by = Append(@, f)]

\* Set.prototype.add: insertion order, no duplicate
SetAdd(set, f) ==
    IF \E i \in 1..Len(set) : set[i] = f THEN set ELSE Append(set, f)

\* the request loop with every interceptor handed the configuration of the
\* call instead of the one its predecessor returned
ApplyRequestInterceptorsUnchained(reqs, config, ran) ==
    LET throwers == {i \in 1..Len(reqs) : reqs[i] \in RequestThrowers}
        first == CHOOSE i \in throwers : \A j \in throwers : i <= j
    IN  IF reqs = <<>> THEN [threw |-> FALSE, by |-> "", config |-> config, ran |-> ran]
        ELSE IF throwers # {}
        THEN [threw |-> TRUE, by |-> reqs[first], config |-> config,
              ran |-> ran \o SubSeq(reqs, 1, first)]
        ELSE [threw |-> FALSE, by |-> "",
              config |-> RequestInterceptor(reqs[Len(reqs)], config), ran |-> ran \o reqs]

\* for (const interceptor of this.interceptors.request) config = interceptor(config):
\* [threw, by, config, ran]
RECURSIVE ApplyRequestInterceptors(_, _, _)
ApplyRequestInterceptors(reqs, config, ran) ==
    IF reqs = <<>> THEN [threw |-> FALSE, by |-> "", config |-> config, ran |-> ran]
    ELSE IF Head(reqs) \in RequestThrowers
    THEN [threw |-> TRUE, by |-> Head(reqs), config |-> config, ran |-> Append(ran, Head(reqs))]
    ELSE ApplyRequestInterceptors(Tail(reqs), RequestInterceptor(Head(reqs), config),
                                  Append(ran, Head(reqs)))

\* for (const interceptor of this.interceptors.response) jetResponse = interceptor(jetResponse):
\* [threw, by, response, ran]
RECURSIVE ApplyResponseInterceptors(_, _, _)
ApplyResponseInterceptors(resps, jetResponse, ran) ==
    IF resps = <<>> THEN [threw |-> FALSE, by |-> "", response |-> jetResponse, ran |-> ran]
    ELSE IF Head(resps) \in ResponseThrowers
    THEN [threw |-> TRUE, by |-> Head(resps), response |-> jetResponse,
          ran |-> Append(ran, Head(resps))]
    ELSE ApplyResponseInterceptors(Tail(resps), ResponseInterceptor(Head(resps), jetResponse),
                                   Append(ran, Head(resps)))

\* the error loop with every interceptor handed the raised error instead of
\* the one its predecessor returned
ApplyErrorInterceptorsUnchained(errs, error, ran) ==
    IF errs = <<>> THEN [error |-> error, ran |-> ran]
    ELSE [error |-> ErrorInterceptor(errs[Len(errs)], error), ran |-> ran \o errs]

\* for (const interceptor of this.interceptors.error) processedError = interceptor(processedError);
\* an interceptor that throws ends the loop and the catch block with it:
\* [error, ran]
RECURSIVE ApplyErrorInterceptors(_, _, _)
ApplyErrorInterceptors(errs, error, ran) ==
    IF errs = <<>> THEN [error |-> error, ran |-> ran]
    ELSE IF Head(errs) \in ErrorThrowers
    THEN [error |-> error, ran |-> Append(ran, Head(errs))]
    ELSE ApplyErrorInterceptors(Tail(errs), ErrorInterceptor(Head(errs), error),
                                Append(ran, Head(errs)))

----------------------------------------------------------------------------
(* Errors and responses. *)

\* an Error: what raised it, the parameter or the duration its message
\* names, and the error interceptors that have transformed it
Error(kind, param, ms) == [kind |-> kind, param |-> param, ms |-> ms, by |-> <<>>]
NoError == Error("none", <<>>, 0)

\* new Error(`Missing required parameter: ${paramKey}`)
MissingParameterError(paramKey) == Error("MissingParameter", paramKey, 0)
\* new Error(`Request timeout after ${timeout}ms`)
TimeoutError(timeout) == Error("Timeout", <<>>, timeout)
\* the rejection of fetch(), or new Error("Network error or request failed")
NetworkError == Error("Network", <<>>, 0)
\* what an interceptor throws
InterceptorError == Error("Interceptor", <<>>, 0)
\* response.clone() on a disturbed body
TypeError == Error("TypeError", <<>>, 0)
\* new RegExp(...) on an invalid pattern
SyntaxError == Error("SyntaxError", <<>>, 0)

\* new JetResponse(response, cached, fromCache)
JetResponse(status, body, cached, fromCache) ==
    [status |-> status, body |-> body, cached |-> cached, fromCache |-> fromCache,
     bodyUsed |-> FALSE, by |-> <<>>]
NoResponse == JetResponse(0, <<>>, FALSE, FALSE)

\* Response.ok
Ok(status) == status >= 200 /\ status <= 299

----------------------------------------------------------------------------
(* The invocations.  pc is where the async function of createHttpFunction  *)
(* stands: "idle" (not called), "fetch" (awaiting fetch), "xhr" (awaiting  *)
(* the XMLHttpRequest of the multipart path), "body" (awaiting             *)
(* response.clone().json()), "resolved", "rejected".  `after` holds the    *)
(* invocations that had settled when this one was made, `log` what the     *)
(* invocation did, in order.                                               *)

IdleCall ==
    [pc |-> "idle", routeKey |-> "", payload |-> EmptyPayload,
     config |-> EmptyPayload @@ [by |-> <<>>],
     url |-> <<>>, timeout |-> 0, defaultAtStart |-> 0, startedAt |-> 0, storedAt |-> 0,
     response |-> NoResponse, error |-> NoError, aborted |-> FALSE, after |-> {},
     log |-> <<>>, headers |-> <<>>]

Calls == 1..MaxCalls

Pending == {"fetch", "xhr", "body"}
Settled == {"resolved", "rejected"}

Event(what, who) == <<what, who>>
Events(what, ran) == [i \in 1..Len(ran) |-> Event(what, ran[i])]

\* the number of transport invocations (fetch or xhr.send) of a call
NetCalls(call) ==
    Cardinality({i \in 1..Len(call.log) : call.log[i][1] \in {"fetch", "xhr.send"}})

\* payload.cache !== false ? payload.cache : false, as a truth value
CacheConfigTruthy(payload) == payload.cache.t \in {"true", "object"}

\* (cacheConfig as {ttl}).ttl || 300000
TtlOf(cacheConfig) == IF cacheConfig.ttl # 0 THEN cacheConfig.ttl ELSE DefaultTtl

\* Object.values(payload.body || {}).some(value => value instanceof File)
doesBodyHasFile(payload) ==
    payload.body.present /\ \E i \in 1..Len(payload.body.fields) : payload.body.fields[i] = "file"

\* the catch block of createHttpFunction: the call rejects with the error
\* folded through the error interceptors
Catch(call, error, errs) ==
    LET r == ApplyErrorInterceptors(errs, error, <<>>)
    IN  [call EXCEPT !.pc = "rejected", !.error = r.error,
                     !.log = @ \o Events("error", r.ran)]

\* a throw inside the try block: noted in the log, then caught
Throw(call, error, errs) ==
    Catch([call EXCEPT !.log = Append(@, Event("throw", error.kind))], error, errs)

\* `return jetResponse` / `return new JetResponse(...)`
Return(call, jetResponse) ==
    [call EXCEPT !.pc = "resolved", !.response = jetResponse]

\* routeDef.headers, undefined on the routes that declare none
HeadersOf(routeDef) ==
    IF "headers" \in DOMAIN routeDef THEN routeDef.headers ELSE Undefined

\* {...this.defaultHeaders, ...routeDef.headers, ...payload.headers}
MergeHeaders(dflt, routeDef, config) ==
    Assign(Assign(dflt, HeadersOf(routeDef).entries), config.headers.entries)

HasKey(entries, k) == \E i \in 1..Len(entries) : entries[i].k = k

\* if (payload.body && isBodyMethod) if (!headers["Content-Type"]) ...
WithContentType(headers, routeDef, config) ==
    IF /\ config.body.present
       /\ routeDef.method \in {"post", "put", "patch"}
       /\ ~HasKey(headers, contentType)
    THEN Put(headers, contentType, applicationJson)
    ELSE headers

\* what fetch (new Headers(init)) and xhr.setRequestHeader make of the
\* headers object: names without case, and the values given under one
\* name joined with ", "
RECURSIVE HeadersFill(_, _)
HeadersFill(list, entries) ==
    IF entries = <<>> THEN list
    ELSE LET name == ToLowerCase(Head(entries).k)
             value == Head(entries).v
         IN  HeadersFill(
                 IF HasKey(list, name)
                 THEN [i \in 1..Len(list) |->
                          IF list[i].k = name
                          THEN Entry(name, list[i].v \o <<",", " ">> \o value)
                          ELSE list[i]]
                 ELSE Append(list, Entry(name, value)),
                 Tail(entries))

\* makeRequest up to its first await: buildUrl, then xhr.send on the
\* multipart path (no timer is armed there: xhr.timeout is never set), or
\* the timer and fetch
makeRequest(call, routeDef, config, errs, dflt, t) ==
    LET u == buildUrl(routeDef, config)
        timeout == IF config.timeout # 0 THEN config.timeout ELSE dflt
        headers == MergeHeaders(defaultHeaders, routeDef, config)
    IN  IF u.threw THEN Throw(call, MissingParameterError(u.param), errs)
        ELSE IF doesBodyHasFile(config)
        THEN [call EXCEPT !.pc = "xhr", !.url = u.url,
                          !.headers = HeadersFill(<<>>, headers),
                          !.log = Append(@, Event("xhr.send", ""))]
        ELSE [call EXCEPT !.pc = "fetch", !.url = u.url, !.timeout = timeout,
                          !.headers = HeadersFill(<<>>, WithContentType(headers, routeDef, config)),
                          !.log = Append(@, Event("fetch", ""))]

\* createHttpFunction's async function up to its first await:
\* [call, cache]
HttpCall(call0, routeKey, payload, c, icpt, dflt, t) ==
    LET routeDef == routes[routeKey]
        call1 == [call0 EXCEPT !.routeKey = routeKey, !.payload = payload,
                               !.startedAt = t, !.defaultAtStart = dflt]
        r == ApplyRequestInterceptors(icpt.request, payload @@ [by |-> <<>>], <<>>)
        call2 == [call1 EXCEPT !.config = r.config, !.log = @ \o Events("request", r.ran)]
        lookup == CacheConfigTruthy(payload) /\ routeDef.method = "get"
        cacheKey == buildCacheKey(routeDef, payload, payload.cache)
        got == CacheGet(c, cacheKey, t, 0)
        call3 == [call2 EXCEPT !.log = Append(@, Event("cache.get", ""))]
    IN  IF r.threw THEN [call |-> Throw(call2, InterceptorError, icpt.error), cache |-> c]
        ELSE IF lookup /\ Truthy(got.value)
        THEN [call |-> Return(call3, JetResponse(200, JsonStringify(got.value), TRUE, TRUE)),
              cache |-> got.cache]
        ELSE IF lookup
        THEN [call |-> makeRequest(call3, routeDef, r.config, icpt.error, dflt, t),
              cache |-> got.cache]
        ELSE [call |-> makeRequest(call2, routeDef, r.config, icpt.error, dflt, t), cache |-> c]

\* an invalidation step that does not look at the status of the response
InvalidateWhateverStatus(call, jetResponse, c, errs) ==
    LET inv == CacheInvalidate(c, routes[call.routeKey].invalidates)
        call1 == [call EXCEPT !.log = Append(@, Event("invalidate", ""))]
    IN  IF routes[call.routeKey].invalidates # <<>>
        THEN IF inv.threw
             THEN [call |-> Throw(call1, SyntaxError, errs), cache |-> inv.cache]
             ELSE [call |-> Return(call1, jetResponse), cache |-> inv.cache]
        ELSE [call |-> Return(call, jetResponse), cache |-> c]

\* after the invalidation step: `return jetResponse`, or the catch block
\* when a pattern does not compile: [call, cache]
Invalidate(call, jetResponse, c, errs) ==
    LET routeDef == routes[call.routeKey]
        inv == CacheInvalidate(c, routeDef.invalidates)
        call1 == [call EXCEPT !.log = Append(@, Event("invalidate", ""))]
    IN  IF routeDef.invalidates # <<>> /\ Ok(jetResponse.status)
        THEN IF inv.threw
             THEN [call |-> Throw(call1, SyntaxError, errs), cache |-> inv.cache]
             ELSE [call |-> Return(call1, jetResponse), cache |-> inv.cache]
        ELSE [call |-> Return(call, jetResponse), cache |-> c]

\* a continuation that stores the answer of a call of any method
OnResponseStoringAnyMethod(call, status, body, c, icpt, t) ==
    LET r == ApplyResponseInterceptors(icpt.response,
                JetResponse(status, body, CacheConfigTruthy(call.payload), FALSE), <<>>)
        call1 == [call EXCEPT !.log = @ \o Events("response", r.ran), !.response = r.response]
    IN  IF r.threw THEN [call |-> Throw(call1, InterceptorError, icpt.error), cache |-> c]
        ELSE IF CacheConfigTruthy(call.payload) /\ Ok(status)
        THEN [call |-> [call1 EXCEPT !.pc = "body"], cache |-> c]
        ELSE Invalidate(call1, r.response, c, icpt.error)

\* createHttpFunction from the resolution of makeRequest to its next await
\* or its end: [call, cache]
OnResponse(call, status, body, c, icpt, t) ==
    LET routeDef == routes[call.routeKey]
        r == ApplyResponseInterceptors(icpt.response,
                JetResponse(status, body, CacheConfigTruthy(call.payload), FALSE), <<>>)
        call1 == [call EXCEPT !.log = @ \o Events("response", r.ran), !.response = r.response]
        store == CacheConfigTruthy(call.payload) /\ Ok(status) /\ routeDef.method = "get"
    IN  IF r.threw THEN [call |-> Throw(call1, InterceptorError, icpt.error), cache |-> c]
        ELSE IF store
        THEN IF r.response.bodyUsed
             THEN [call |-> Throw(call1, TypeError, icpt.error), cache |-> c]
             ELSE [call |-> [call1 EXCEPT !.pc = "body"], cache |-> c]
        ELSE Invalidate(call1, r.response, c, icpt.error)

\* createHttpFunction from the resolution of response.clone().json() to its
\* end: cache.set, the invalidation, return: [call, cache]
OnBody(call, c, icpt, t) ==
    LET routeDef == routes[call.routeKey]
        cacheKey == buildCacheKey(routeDef, call.payload, call.payload.cache)
        data == DecodeBody(call.response.body)
        c1 == CacheSet(c, cacheKey, data, TtlOf(call.payload.cache), t, 0).cache
        call1 == [call EXCEPT !.log = Append(@, Event("cache.set", "")), !.storedAt = t]
    IN  Invalidate(call1, call.response, c1, icpt.error)


----------------------------------------------------------------------------
(* The caller of jetflare.cache (README, Manual Cache Management): the     *)
(* objects it holds (the values it passed to set and the values get        *)
(* returned), the next unused object identity and key number, the number   *)
(* of operations made, what it last passed to set under each key, and its  *)
(* last operation.                                                         *)

NoOp ==
    [op |-> "none", key |-> <<>>, value |-> NullV, ttl |-> 0, patterns |-> <<>>,
     threw |-> FALSE, at |-> 0]

NoClient ==
    [held |-> <<>>, nextRef |-> 1, nextKey |-> 1, ops |-> 0, sent |-> <<>>, last |-> NoOp,
     defaults |-> <<>>]

DigitText == <<"0", "1", "2", "3", "4", "5", "6", "7", "8", "9">>

\* String(n) of a natural number
RECURSIVE Decimal(_)
Decimal(n) ==
    IF n < 10 THEN <<DigitText[n + 1]>>
    ELSE Decimal(n \div 10) \o <<DigitText[(n % 10) + 1]>>

\* `user-${n}`: the n-th key the caller makes up
KeyOf(n) == <<"u", "s", "e", "r", "-">> \o Decimal(n)

IsObject(v) == "ref" \in DOMAIN v

\* the caller keeps a reference to the object
Hold(held, v) ==
    IF IsObject(v) /\ \A i \in 1..Len(held) : held[i].ref # v.ref
    THEN Append(held, v) ELSE held

\* what the caller last passed to set(key, ...)
Remember(sent, key, v) ==
    SelectSeq(sent, LAMBDA e : e.key # key) \o <<[key |-> key, s |-> v.s, t |-> v.t]>>

\* obj.value = ...: every reference to the object ref sees the new contents
Write(v, ref, s) ==
    IF IsObject(v) /\ v.ref = ref THEN [v EXCEPT !.s = s] ELSE v

\* for (i = from; i < from + n; i++) cache.set(`user-${i}`, 1, ttl): the
\* first half of the loop, then the second half on the cache it has left
RECURSIVE FillFrom(_, _, _, _, _)
FillFrom(c, from, n, ttl, t) ==
    IF n = 0 THEN c
    ELSE IF n = 1 THEN CacheSet(c, KeyOf(from), Num(<<"1">>), ttl, t, 0).cache
    ELSE LET half == n \div 2
         IN  CHOOSE filled \in {FillFrom(first, from + half, n - half, ttl, t) :
                                  first \in {FillFrom(c, from, half, ttl, t)}} : TRUE

----------------------------------------------------------------------------
(* WebSocketManager.  A Map is the sequence of its entries [key, value] in  *)
(* insertion order.  `made` holds the WebSocket objects the manager         *)
(* constructed, in order of construction; the connections map holds their   *)
(* positions in it.  A WebSocket has its url, its readyState, the frames    *)
(* handed to its send, the listeners attached with addEventListener, and    *)
(* whether its close event has been dispatched.                             *)

wsPath == <<"/", "w", "s">>
chatPath == <<"/", "c", "h", "a", "t">>

\* the routes of method "websocket": the one of the tests, the one of the
\* README, and one more with the path of the latter
socketRoutes ==
    [wsConnect |-> [path |-> wsPath, method |-> "websocket"],
     WS_chat |-> [path |-> chatPath, method |-> "websocket"],
     WS_lobby |-> [path |-> chatPath, method |-> "websocket"]]

\* this.origin.replace(/^http/, "ws") + routeDef.path
WsUrl(routeDef) ==
    (IF Len(origin) >= 4 /\ SubSeq(origin, 1, 4) = <<"h", "t", "t", "p">>
     THEN <<"w", "s">> \o SubSeq(origin, 5, Len(origin))
     ELSE origin) \o routeDef.path

\* Map.prototype.has, get (0 for undefined), set, delete
MapHas(map, key) == \E i \in 1..Len(map) : map[i].key = key
MapGet(map, key) ==
    IF MapHas(map, key) THEN map[CHOOSE i \in 1..Len(map) : map[i].key = key].value ELSE 0
MapSet(map, key, value) ==
    IF MapHas(map, key)
    THEN [i \in 1..Len(map) |-> IF map[i].key = key THEN [key |-> key, value |-> value] ELSE map[i]]
    ELSE Append(map, [key |-> key, value |-> value])
MapDelete(map, key) == SelectSeq(map, LAMBDA e : e.key # key)

\* new WebSocket(url, protocols); closeCalled: close() has started its
\* closing handshake
WebSocket(url) ==
    [url |-> url, readyState |-> "CONNECTING", sent |-> <<>>, listeners |-> {},
     closeCalled |-> FALSE, closeDispatched |-> FALSE]

NoSocketOp == [op |-> "none", url |-> <<>>, event |-> <<>>, handler |-> "", threw |-> FALSE]

\* the manager after `new WebSocketManager()`, with the number of calls
\* made on it and the last of them
NoSockets ==
    [connections |-> <<>>, eventHandlers |-> <<>>, made |-> <<>>, ops |-> 0,
     last |-> NoSocketOp]

\* `${url}:${event}`
HandlerKey(url, event) == url \o <<":">> \o event

\* a connect that constructs a socket and puts it in the table whatever
\* the table holds
WsConnectAnew(m, url) ==
    [m EXCEPT !.made = Append(@, WebSocket(url)),
              !.connections = MapSet(@, url, Len(m.made) + 1)]

\* WebSocketManager.connect
WsConnect(m, url) ==
    IF MapHas(m.connections, url) THEN m
    ELSE [m EXCEPT !.made = Append(@, WebSocket(url)),
                   !.connections = MapSet(@, url, Len(m.made) + 1)]

\* WebSocketManager.socket: the position in `made`, 0 for undefined
WsSocket(m, url) == MapGet(m.connections, url)

\* an on that records the handler only when there is a connection to
\* attach it to
WsOnIfConnected(m, url, event, handler) ==
    LET key == HandlerKey(url, event)
        had == IF MapHas(m.eventHandlers, key) THEN MapGet(m.eventHandlers, key) ELSE {}
        ws == MapGet(m.connections, url)
    IN  IF ws # 0
        THEN [m EXCEPT !.eventHandlers = MapSet(@, key, had \cup {handler}),
                       !.made = [@ EXCEPT ![ws].listeners = @ \cup {<<event, handler>>}]]
        ELSE m

\* WebSocketManager.on
WsOn(m, url, event, handler) ==
    LET key == HandlerKey(url, event)
        had == IF MapHas(m.eventHandlers, key) THEN MapGet(m.eventHandlers, key) ELSE {}
        ws == MapGet(m.connections, url)
    IN  [m EXCEPT !.eventHandlers = MapSet(@, key, had \cup {handler}),
                  !.made = IF ws # 0
                           THEN [@ EXCEPT ![ws].listeners = @ \cup {<<event, handler>>}]
                           ELSE @]

\* WebSocketManager.off
WsOff(m, url, event, handler) ==
    LET key == HandlerKey(url, event)
        ws == MapGet(m.connections, url)
    IN  IF MapHas(m.eventHandlers, key)
        THEN [m EXCEPT !.eventHandlers = MapSet(@, key, MapGet(@, key) \ {handler}),
                       !.made = IF ws # 0
                                THEN [@ EXCEPT ![ws].listeners = @ \ {<<event, handler>>}]
                                ELSE @]
        ELSE m

\* a send that hands the data to whatever connection the table holds,
\* without looking at its readyState
WsSendIgnoringReadyState(m, url, data) ==
    LET ws == MapGet(m.connections, url)
        text == IF data.t = "string" THEN data.s ELSE JsonStringify(data)
    IN  IF ws # 0
        THEN [threw |-> FALSE, sockets |-> [m EXCEPT !.made[ws].sent = Append(@, text)]]
        ELSE [threw |-> TRUE, sockets |-> m]

\* WebSocketManager.send: [threw, sockets]
WsSend(m, url, data) ==
    LET ws == MapGet(m.connections, url)
        text == IF data.t = "string" THEN data.s ELSE JsonStringify(data)
    IN  IF ws # 0 /\ m.made[ws].readyState = "OPEN"
        THEN [threw |-> FALSE, sockets |-> [m EXCEPT !.made[ws].sent = Append(@, text)]]
        ELSE [threw |-> TRUE, sockets |-> m]

\* WebSocket.prototype.close: the closing handshake starts unless the
\* socket is closing or closed already
WsClose(m, url) ==
    LET ws == MapGet(m.connections, url)
    IN  IF ws # 0 /\ m.made[ws].readyState \in {"CONNECTING", "OPEN"}
        THEN [m EXCEPT !.made[ws].readyState = "CLOSING", !.made[ws].closeCalled = TRUE]
        ELSE m

\* an onclose that leaves the table as it is
WsOnCloseKeepingEntry(m, url) ==
    [m EXCEPT !.eventHandlers = MapDelete(@, url)]

\* ws.onclose, which closes over the url given to connect
WsOnClose(m, url) ==
    [m EXCEPT !.connections = MapDelete(@, url),
              !.eventHandlers = MapDelete(@, url)]


----------------------------------------------------------------------------
(* createSSEFunction.  Every invocation of the callable of an sse route     *)
(* makes a handle with its own `eventSource`, null (0) at first; `made`     *)
(* holds every EventSource constructed, with the handle that made it.       *)

eventsPath == <<"/", "e", "v", "e", "n", "t", "s">>

sseRoutes == [sseEvents |-> [path |-> eventsPath, method |-> "sse"]]

\* new EventSource(url), made by handle h
EventSource(url, h) ==
    [url |-> url, readyState |-> "CONNECTING", listeners |-> {}, handle |-> h]

NoStreamOp == [op |-> "none", handle |-> 0]

NoStreams == [handles |-> <<>>, made |-> <<>>, ops |-> 0, last |-> NoStreamOp]

\* connect: () => { eventSource = new EventSource(url) }
SseConnect(m, h) ==
    [m EXCEPT !.made = Append(@, EventSource(m.handles[h].url, h)),
              !.handles = [@ EXCEPT ![h].eventSource = Len(m.made) + 1]]

\* event: () => eventSource
SseEvent(m, h) == m.handles[h].eventSource

\* on: attaches the handler when there is an eventSource
SseOn(m, h, event, handler) ==
    LET es == m.handles[h].eventSource
    IN  IF es # 0
        THEN [m EXCEPT !.made = [@ EXCEPT ![es].listeners = @ \cup {<<event, handler>>}]]
        ELSE m

\* close: eventSource.close() when there is an eventSource
SseClose(m, h) ==
    LET es == m.handles[h].eventSource
    IN  IF es # 0
        THEN [m EXCEPT !.made = [@ EXCEPT ![es].readyState = "CLOSED"]]
        ELSE m

----------------------------------------------------------------------------
(* The constructor of JetflareCommon.  A route table is an object with its  *)
(* own entries [name, def] in enumeration order and the names it inherits;  *)
(* a route definition is an object with its method, or whatever else the    *)
(* caller put there.                                                        *)

RouteTable(own, inherited) ==
    [t |-> "object", s |-> <<>>, own |-> own, inherited |-> inherited]
RouteDef(method) == [t |-> "object", s |-> <<>>, method |-> method]

\* typeof value
TypeOf(v) ==
    CASE v.t \in {"null", "object", "array"} -> "object"
      [] OTHER -> v.t

Letters ==
    {"a", "b", "c", "d", "e", "f", "g", "h", "i", "j", "k", "l", "m", "n", "o",
     "p", "q", "r", "s", "t", "u", "v", "w", "x", "y", "z"}
SpecialSchemes ==
    {<<"h", "t", "t", "p">>, <<"h", "t", "t", "p", "s">>, <<"w", "s">>,
     <<"w", "s", "s">>, <<"f", "t", "p">>}

\* new URL(text) does not throw: the text has a scheme, and after a special
\* scheme and its slashes a host
UrlParses(text) ==
    \E i \in 2..Len(text) :
        /\ text[i] = ":"
        /\ \A j \in 1..(i - 1) : text[j] \in Letters
        /\ SubSeq(text, 1, i - 1) \in SpecialSchemes
              => \E j \in (i + 1)..Len(text) : text[j] # "/"

\* origin.replace(/\/$/, "")
StripSlash(text) ==
    IF text # <<>> /\ text[Len(text)] = "/" THEN SubSeq(text, 1, Len(text) - 1) ELSE text

Built(originText, callables) ==
    [threw |-> FALSE, message |-> "", origin |-> originText, callables |-> callables]
Failed(message) ==
    [threw |-> TRUE, message |-> message, origin |-> <<>>, callables |-> <<>>]

\* routeDef.method of whatever stands where a route definition should
MethodOf(def) == IF "method" \in DOMAIN def THEN def.method ELSE "undefined"

\* JetflareCommon.setupRoutes: [threw, callables]; reading `.method` of
\* null or undefined is a TypeError
setupRoutes(table) ==
    LET own == IF "own" \in DOMAIN table THEN table.own ELSE <<>>
        kind(def) == CASE MethodOf(def) = "websocket" -> "websocket"
                       [] MethodOf(def) = "sse" -> "sse"
                       [] OTHER -> "http"
    IN  [threw |-> \E i \in 1..Len(own) : own[i].def.t \in {"null", "undefined"},
         callables |-> [i \in 1..Len(own) |->
                           [name |-> own[i].name, kind |-> kind(own[i].def)]]]

\* a constructor that takes the origin as it is given
JetflareCommonAnyOrigin(options) ==
    IF ~Truthy(options.routes) THEN Failed("Routes are required")
    ELSE IF TypeOf(options.routes) # "object" THEN Failed("Routes must be an object")
    ELSE IF setupRoutes(options.routes).threw THEN Failed("TypeError")
    ELSE Built(String(options.origin), setupRoutes(options.routes).callables)

\* new JetflareCommon({origin, routes})
JetflareCommon(options) ==
    IF ~Truthy(options.origin) THEN Failed("Origin URL is required")
    ELSE IF ~Truthy(options.routes) THEN Failed("Routes are required")
    ELSE IF TypeOf(options.routes) # "object" THEN Failed("Routes must be an object")
    ELSE IF ~UrlParses(String(options.origin)) THEN Failed("Invalid origin URL")
    ELSE IF setupRoutes(options.routes).threw THEN Failed("TypeError")
    ELSE Built(StripSlash(String(options.origin)), setupRoutes(options.routes).callables)

\* no further client constructed, none of its members read
NoConstruction ==
    [made |-> FALSE, options |-> [origin |-> UndefinedV, routes |-> UndefinedV],
     result |-> Failed(""), invoked |-> "", usable |-> FALSE]

----------------------------------------------------------------------------
(* The state after `Jetflare(origin, routes)`. *)

Init ==
    /\ cache = <<>>
    /\ now = 0
    /\ defaultTimeout = 30000
    /\ interceptors = [request |-> <<>>, response |-> <<>>, error |-> <<>>]
    /\ calls = [c \in Calls |-> IdleCall]
    /\ client = NoClient
    /\ sockets = NoSockets
    /\ defaultHeaders = <<>>
    /\ construction = NoConstruction
    /\ origin = apiOrigin
    /\ streams = NoStreams

----------------------------------------------------------------------------
(* Actions. *)

\* a route callable is invoked: api[routeKey](payload)
Call(c, routeKey, payload) ==
    /\ calls[c].pc = "idle"
    /\ \A b \in Calls : b < c => calls[b].pc # "idle"
    /\ LET settled == {b \in Calls : calls[b].pc \in Settled}
           r == HttpCall([calls[c] EXCEPT !.after = settled], routeKey, payload, cache,
                         interceptors, defaultTimeout, now)
       IN  /\ calls' = [calls EXCEPT ![c] = r.call]
           /\ cache' = r.cache
    /\ UNCHANGED <<origin, streams, now, defaultTimeout, interceptors, client, sockets, defaultHeaders, construction>>

\* fetch() resolves with a Response; clearTimeout
FetchResolves(c, status, body) ==
    /\ calls[c].pc = "fetch"
    /\ LET r == OnResponse(calls[c], status, body, cache, interceptors, now)
       IN  /\ calls' = [calls EXCEPT ![c] = r.call]
           /\ cache' = r.cache
    /\ UNCHANGED <<origin, streams, now, defaultTimeout, interceptors, client, sockets, defaultHeaders, construction>>

\* fetch() rejects with an error that is no AbortError; clearTimeout
FetchRejects(c) ==
    /\ calls[c].pc = "fetch"
    /\ calls' = [calls EXCEPT ![c] = Throw(@, NetworkError, interceptors.error)]
    /\ UNCHANGED <<origin, streams, cache, now, defaultTimeout, interceptors, client, sockets, defaultHeaders, construction>>

\* the timer of makeRequest fires: controller.abort(), fetch rejects with an
\* AbortError, which makeRequest rethrows as the timeout error
TimerFires(c) ==
    /\ calls[c].pc = "fetch"
    /\ now >= calls[c].startedAt + calls[c].timeout
    /\ calls' = [calls EXCEPT ![c] =
                    Throw(@, TimeoutError(calls[c].timeout), interceptors.error)]
    /\ UNCHANGED <<origin, streams, cache, now, defaultTimeout, interceptors, client, sockets, defaultHeaders, construction>>

\* xhr.onload
XhrLoads(c, status, body) ==
    /\ calls[c].pc = "xhr"
    /\ LET r == OnResponse(calls[c], status, body, cache, interceptors, now)
       IN  /\ calls' = [calls EXCEPT ![c] = r.call]
           /\ cache' = r.cache
    /\ UNCHANGED <<origin, streams, now, defaultTimeout, interceptors, client, sockets, defaultHeaders, construction>>

\* xhr.onerror
XhrError(c) ==
    /\ calls[c].pc = "xhr"
    /\ calls' = [calls EXCEPT ![c] = Throw(@, NetworkError, interceptors.error)]
    /\ UNCHANGED <<origin, streams, cache, now, defaultTimeout, interceptors, client, sockets, defaultHeaders, construction>>

\* response.clone().json() (or the text() fallback) resolves
JsonResolves(c) ==
    /\ calls[c].pc = "body"
    /\ LET r == OnBody(calls[c], cache, interceptors, now)
       IN  /\ calls' = [calls EXCEPT ![c] = r.call]
           /\ cache' = r.cache
    /\ UNCHANGED <<origin, streams, now, defaultTimeout, interceptors, client, sockets, defaultHeaders, construction>>

\* a millisecond passes; a timer that is due fires before the clock moves on
Tick ==
    /\ now < MaxTime
    /\ \A c \in Calls : calls[c].pc = "fetch" => now < calls[c].startedAt + calls[c].timeout
    /\ now' = now + 1
    /\ UNCHANGED <<origin, streams, cache, defaultTimeout, interceptors, calls, client, sockets, defaultHeaders, construction>>

\* JetflareCommon.setBaseURL(url)
setBaseURL(url) ==
    /\ origin' = StripSlash(url)
    /\ UNCHANGED <<streams, cache, now, defaultTimeout, interceptors, calls, client, sockets,
                   defaultHeaders, construction>>

\* JetflareCommon.setDefaultTimeout(timeout)
setDefaultTimeout(timeout) ==
    /\ defaultTimeout' = timeout
    /\ UNCHANGED <<origin, streams, cache, now, interceptors, calls, client, sockets, defaultHeaders, construction>>

\* JetflareCommon.setDefaultHeaders(headers); the caller keeps what it
\* passed, in order
setDefaultHeaders(headers) ==
    /\ Len(client.defaults) < MaxDefaults
    /\ defaultHeaders' = Assign(defaultHeaders, headers.entries)
    /\ client' = [client EXCEPT !.defaults = Append(@, headers)]
    /\ UNCHANGED <<origin, streams, cache, now, defaultTimeout, interceptors, calls, sockets, construction>>

\* the caller aborts the AbortController whose signal it passed in the
\* payload; nothing of makeRequest listens to payload.signal
SignalAbort(c) ==
    /\ calls[c].pc \in Pending
    /\ calls[c].payload.signal
    /\ ~calls[c].aborted
    /\ calls' = [calls EXCEPT ![c].aborted = TRUE]
    /\ UNCHANGED <<origin, streams, cache, now, defaultTimeout, interceptors, client, sockets, defaultHeaders, construction>>

\* api.interceptors.request.add(f)
AddRequestInterceptor(f) ==
    /\ Len(interceptors.request) < MaxInterceptors
    /\ interceptors' = [interceptors EXCEPT !.request = SetAdd(@, f)]
    /\ UNCHANGED <<origin, streams, cache, now, defaultTimeout, calls, client, sockets, defaultHeaders, construction>>

\* api.interceptors.response.add(f)
AddResponseInterceptor(f) ==
    /\ Len(interceptors.response) < MaxInterceptors
    /\ interceptors' = [interceptors EXCEPT !.response = SetAdd(@, f)]
    /\ UNCHANGED <<origin, streams, cache, now, defaultTimeout, calls, client, sockets, defaultHeaders, construction>>

\* api.interceptors.error.add(f)
AddErrorInterceptor(f) ==
    /\ Len(interceptors.error) < MaxInterceptors
    /\ interceptors' = [interceptors EXCEPT !.error = SetAdd(@, f)]
    /\ UNCHANGED <<origin, streams, cache, now, defaultTimeout, calls, client, sockets, defaultHeaders, construction>>

\* jetflare.cache.set(key, v, ttl)
CacheSetOp(key, v, ttl) ==
    /\ client.ops < MaxOps
    /\ LET r == CacheSet(cache, key, v, ttl, now, client.nextRef + 1)
       IN  /\ cache' = r.cache
           /\ client' = [client EXCEPT
                  !.held = Hold(@, v),
                  !.nextRef = @ + 2,
                  !.nextKey = IF key = KeyOf(@) THEN @ + 1 ELSE @,
                  !.ops = @ + 1,
                  !.sent = IF r.threw THEN @ ELSE Remember(@, key, v),
                  !.last = [NoOp EXCEPT !.op = "set", !.key = key, !.value = v, !.ttl = ttl,
                                        !.threw = r.threw, !.at = now]]
    /\ UNCHANGED <<origin, streams, now, defaultTimeout, interceptors, calls, sockets, defaultHeaders, construction>>

\* jetflare.cache.get(key)
CacheGetOp(key) ==
    /\ client.ops < MaxOps
    /\ LET r == CacheGet(cache, key, now, client.nextRef)
       IN  /\ cache' = r.cache
           /\ client' = [client EXCEPT
                  !.held = Hold(@, r.value),
                  !.nextRef = @ + 1,
                  !.ops = @ + 1,
                  !.last = [NoOp EXCEPT !.op = "get", !.key = key, !.value = r.value, !.at = now]]
    /\ UNCHANGED <<origin, streams, now, defaultTimeout, interceptors, calls, sockets, defaultHeaders, construction>>

\* jetflare.cache.invalidate(patterns)
CacheInvalidateOp(patterns) ==
    /\ client.ops < MaxOps
    /\ LET r == CacheInvalidate(cache, patterns)
       IN  /\ cache' = r.cache
           /\ client' = [client EXCEPT
                  !.ops = @ + 1,
                  !.last = [NoOp EXCEPT !.op = "invalidate", !.patterns = patterns,
                                        !.threw = r.threw, !.at = now]]
    /\ UNCHANGED <<origin, streams, now, defaultTimeout, interceptors, calls, sockets, defaultHeaders, construction>>

\* jetflare.cache.clear()
CacheClearOp ==
    /\ client.ops < MaxOps
    /\ cache' = <<>>
    /\ client' = [client EXCEPT !.ops = @ + 1, !.last = [NoOp EXCEPT !.op = "clear", !.at = now]]
    /\ UNCHANGED <<origin, streams, now, defaultTimeout, interceptors, calls, sockets, defaultHeaders, construction>>

\* the caller writes to an object it holds
Mutate(i, s) ==
    /\ client.ops < MaxOps
    /\ i \in 1..Len(client.held)
    /\ client.held[i].s # s
    /\ LET ref == client.held[i].ref
       IN  /\ cache' = [j \in 1..Len(cache) |->
                           [cache[j] EXCEPT !.data = Write(@, ref, s)]]
           /\ client' = [client EXCEPT
                  !.held = [j \in 1..Len(@) |-> Write(@[j], ref, s)],
                  !.ops = @ + 1,
                  !.last = [NoOp EXCEPT !.op = "mutate", !.at = now]]
    /\ UNCHANGED <<origin, streams, now, defaultTimeout, interceptors, calls, sockets, defaultHeaders, construction>>

\* the caller fills the cache with n entries under keys of its own
FillCache(n, ttl) ==
    /\ client.nextKey = 1
    /\ cache' = FillFrom(cache, client.nextKey, n, ttl, now)
    /\ client' = [client EXCEPT !.nextKey = @ + n, !.last = [NoOp EXCEPT !.op = "fill", !.at = now]]
    /\ UNCHANGED <<origin, streams, now, defaultTimeout, interceptors, calls, sockets, defaultHeaders, construction>>

\* a call on the socket manager, through the handle of a websocket route,
\* with the event name and the handler it was given
SocketCallWith(op, url, event, handler, threw, m) ==
    /\ sockets.ops < MaxSocketOps
    /\ sockets' = [m EXCEPT !.ops = sockets.ops + 1,
                            !.last = [op |-> op, url |-> url, event |-> event,
                                      handler |-> handler, threw |-> threw]]
    /\ UNCHANGED <<origin, streams, cache, now, defaultTimeout, interceptors, calls, client,
                   defaultHeaders, construction>>

SocketCall(op, url, threw, m) == SocketCallWith(op, url, <<>>, "", threw, m)

\* jetflare[r]().connect()
WsConnectOp(r) ==
    LET url == WsUrl(socketRoutes[r])
    IN  /\ MapHas(sockets.connections, url) \/ Len(sockets.made) < MaxSockets
        /\ SocketCall("connect", url, FALSE, WsConnect(sockets, url))

\* jetflare[r]().on(event, handler)
WsOnOp(r, event, handler) ==
    LET url == WsUrl(socketRoutes[r])
    IN  SocketCallWith("on", url, event, handler, FALSE, WsOn(sockets, url, event, handler))

\* jetflare[r]().off(event, handler)
WsOffOp(r, event, handler) ==
    LET url == WsUrl(socketRoutes[r])
    IN  SocketCallWith("off", url, event, handler, FALSE, WsOff(sockets, url, event, handler))

\* jetflare[r]().send(data)
WsSendOp(r, data) ==
    LET url == WsUrl(socketRoutes[r])
        sent == WsSend(sockets, url, data)
    IN  SocketCall("send", url, sent.threw, sent.sockets)

\* jetflare[r]().close()
WsCloseOp(r) ==
    LET url == WsUrl(socketRoutes[r])
    IN  SocketCall("close", url, FALSE, WsClose(sockets, url))

\* the connection is established: readyState becomes OPEN
SocketOpens(ws) ==
    /\ sockets.made[ws].readyState = "CONNECTING"
    /\ sockets' = [sockets EXCEPT !.made[ws].readyState = "OPEN"]
    /\ UNCHANGED <<origin, streams, cache, now, defaultTimeout, interceptors, calls, client, defaultHeaders, construction>>

\* the connection is closed, by the closing handshake either side started
\* or by a failure: readyState becomes CLOSED, and the close event is due
SocketCloses(ws) ==
    /\ sockets.made[ws].readyState # "CLOSED"
    /\ sockets' = [sockets EXCEPT !.made[ws].readyState = "CLOSED"]
    /\ UNCHANGED <<origin, streams, cache, now, defaultTimeout, interceptors, calls, client, defaultHeaders, construction>>

\* the close event is dispatched: ws.onclose runs
CloseEvent(ws) ==
    /\ sockets.made[ws].readyState = "CLOSED"
    /\ ~sockets.made[ws].closeDispatched
    /\ sockets' = [WsOnClose(sockets, sockets.made[ws].url)
                       EXCEPT !.made[ws].closeDispatched = TRUE]
    /\ UNCHANGED <<origin, streams, cache, now, defaultTimeout, interceptors, calls, client, defaultHeaders, construction>>

\* const api = Jetflare(o, r)
Construct(o, r) ==
    /\ ~construction.made
    /\ construction' = [construction EXCEPT
                           !.made = TRUE,
                           !.options = [origin |-> o, routes |-> r],
                           !.result = JetflareCommon([origin |-> o, routes |-> r])]
    /\ UNCHANGED <<origin, streams, cache, now, defaultTimeout, interceptors, calls, client, sockets,
                   defaultHeaders>>

\* api[name](): usable when the construction returned and made the callable
Invoke(name) ==
    /\ construction.made
    /\ construction.invoked = ""
    /\ construction' = [construction EXCEPT
                           !.invoked = name,
                           !.usable = /\ ~construction.result.threw
                                      /\ \E i \in 1..Len(construction.result.callables) :
                                            construction.result.callables[i].name = name]
    /\ UNCHANGED <<origin, streams, cache, now, defaultTimeout, interceptors, calls, client, sockets,
                   defaultHeaders>>

\* a call on the handle h of an sse route
StreamCall(op, h, m) ==
    /\ streams.ops < MaxStreamOps
    /\ streams' = [m EXCEPT !.ops = streams.ops + 1,
                            !.last = [op |-> op, handle |-> h]]
    /\ UNCHANGED <<cache, now, defaultTimeout, interceptors, calls, client, sockets,
                   defaultHeaders, construction, origin>>

\* jetflare[r](payload) of an sse route: a handle with its url, not connected
SseHandle(r, payload) ==
    LET built == buildUrl(sseRoutes[r], payload)
    IN  /\ Len(streams.handles) < MaxHandles
        /\ ~built.threw
        /\ streams' = [streams EXCEPT
                          !.handles = Append(@, [url |-> built.url, eventSource |-> 0])]
        /\ UNCHANGED <<cache, now, defaultTimeout, interceptors, calls, client, sockets,
                       defaultHeaders, construction, origin>>

\* handle.connect()
SseConnectOp(h) ==
    /\ Len(streams.made) < MaxSources
    /\ StreamCall("connect", h, SseConnect(streams, h))

\* handle.on(event, handler)
SseOnOp(h, event, handler) == StreamCall("on", h, SseOn(streams, h, event, handler))

\* handle.close()
SseCloseOp(h) == StreamCall("close", h, SseClose(streams, h))

\* the stream of EventSource es is established
EventSourceOpens(es) ==
    /\ streams.made[es].readyState = "CONNECTING"
    /\ streams' = [streams EXCEPT !.made = [@ EXCEPT ![es].readyState = "OPEN"]]
    /\ UNCHANGED <<cache, now, defaultTimeout, interceptors, calls, client, sockets,
                   defaultHeaders, construction, origin>>

\* the connection of EventSource es fails for good
EventSourceFails(es) ==
    /\ streams.made[es].readyState = "CONNECTING"
    /\ streams' = [streams EXCEPT !.made = [@ EXCEPT ![es].readyState = "CLOSED"]]
    /\ UNCHANGED <<cache, now, defaultTimeout, interceptors, calls, client, sockets,
                   defaultHeaders, construction, origin>>

----------------------------------------------------------------------------
(* Inputs. *)

one == <<"1">>
two == <<"2">>

Statuses == {200, 404}
Bodies == {<<"[", "]">>, <<"0">>, <<"h", "i">>}

pageLimit == Obj(<<Entry(pageKey, Num(one)), Entry(limitKey, Num(two))>>)
limitPage == Obj(<<Entry(limitKey, Num(two)), Entry(pageKey, Num(one))>>)

\* the payloads of the caching specification
CachePayloads(routeKey) ==
    CASE routeKey = "getUsers" ->
            {[EmptyPayload EXCEPT !.query = q, !.cache = cc] :
                q \in {Undefined, pageLimit, limitPage},
                cc \in {CacheUndefined, CacheObj(1, <<>>)}}
            \cup {[EmptyPayload EXCEPT !.cache = CacheObj(0, usersListKey)]}
      [] routeKey = "getUserById" ->
            {[EmptyPayload EXCEPT !.params = ps] :
                ps \in {Undefined, Obj(<<>>), Obj(<<Entry(idKey, NullV)>>),
                        Obj(<<Entry(idKey, Str(one))>>)}}
            \cup {[EmptyPayload EXCEPT !.params = ps, !.cache = CacheTrue] :
                    ps \in {Obj(<<Entry(idKey, NullV)>>), Obj(<<Entry(idKey, Str(one))>>)}}
      [] routeKey = "createUser" ->
            {[EmptyPayload EXCEPT !.body = Body(<<"text">>), !.cache = cc] :
                cc \in {CacheUndefined, CacheTrue}}
      [] OTHER -> {}

----------------------------------------------------------------------------
(* Specifications. *)

\* calls with cache directives, params and queries against a transport
\* that answers or fails
Next ==
    \/ \E c \in Calls, routeKey \in RouteKeys :
          \E payload \in CachePayloads(routeKey) : Call(c, routeKey, payload)
    \/ \E c \in Calls, status \in Statuses, body \in Bodies : FetchResolves(c, status, body)
    \/ \E c \in Calls : FetchRejects(c)
    \/ \E c \in Calls : JsonResolves(c)
    \/ Tick

Spec == Init /\ [][Next]_vars


\* the payloads of the timeout specification: a per-call timeout or none,
\* alone or with a cancellation signal or a retry directive, and on the
\* mutation route a body with or without a File
TimeoutPayloads(routeKey) ==
    CASE routeKey = "getUsers" ->
            {[EmptyPayload EXCEPT !.timeout = t] : t \in {0, 1}}
            \cup {[EmptyPayload EXCEPT !.timeout = t, !.signal = TRUE] : t \in {0, 1}}
            \cup {[EmptyPayload EXCEPT !.timeout = t, !.retry = 2] : t \in {0, 1}}
      [] routeKey = "createUser" ->
            {[EmptyPayload EXCEPT !.timeout = t, !.body = Body(<<f>>)] :
                t \in {0, 1}, f \in {"text", "file"}}
      [] OTHER -> {}

\* calls with timeouts, signals and retry directives against a transport
\* that answers, fails or stays silent, on the fetch and the multipart path
NextTimeout ==
    \/ \E c \in Calls, routeKey \in RouteKeys :
          \E payload \in TimeoutPayloads(routeKey) : Call(c, routeKey, payload)
    \/ \E c \in Calls, status \in Statuses : FetchResolves(c, status, <<"[", "]">>)
    \/ \E c \in Calls : FetchRejects(c)
    \/ \E c \in Calls : TimerFires(c)
    \/ \E c \in Calls, status \in Statuses : XhrLoads(c, status, <<"[", "]">>)
    \/ \E c \in Calls : XhrError(c)
    \/ \E c \in Calls : SignalAbort(c)
    \/ setDefaultTimeout(2)
    \/ Tick

SpecTimeout == Init /\ [][NextTimeout]_vars


\* what the caller passes to cache.set: a key of its own making, the empty
\* key or its first key; a new object, a function or the object it last
\* got hold of; a ttl
CacheSetInputs ==
    LET fresh == KeyOf(client.nextKey)
        new == Object(client.nextRef, <<"a">>)
    IN  {<<fresh, new, ttl>> : ttl \in {-1, 1, 300000}}
        \cup {<<fresh, Function, 300000>>, <<<<>>, new, 300000>>, <<KeyOf(1), new, 300000>>}
        \cup {<<fresh, client.held[i], 300000>> : i \in {Len(client.held)} \ {0}}

\* the keys the caller reads
CacheGetKeys == {<<>>, KeyOf(1), KeyOf(2), KeyOf(client.nextKey - 1)}

\* the patterns the caller invalidates: a key, a glob, a pattern with a
\* dot, a glob inside a key, two patterns
CachePatterns ==
    {<<KeyOf(1)>>,
     <<<<"u", "s", "e", "r", "-", "*">>>>,
     <<<<"u", "s", "e", "r", ".", "2">>>>,
     <<<<"r", "-", "1", "*", "0">>>>,
     <<<<"p", "o", "s", "t", "s">>, KeyOf(2)>>}

\* the cache manager used directly: set, get, invalidate and clear, the
\* caller writing to the objects it holds, the clock moving
NextCache ==
    \/ \E in \in CacheSetInputs : CacheSetOp(in[1], in[2], in[3])
    \/ \E key \in CacheGetKeys : CacheGetOp(key)
    \/ \E patterns \in CachePatterns : CacheInvalidateOp(patterns)
    \/ CacheClearOp
    \/ \E i \in 1..Len(client.held) : Mutate(i, <<"b">>)
    \/ Tick

SpecCache == Init /\ [][NextCache]_vars


\* the payloads of the route specification: the GET routes that declare
\* `cache` called without a directive, with cache: false and with the
\* route's own directive passed per call, and the PUT route with and
\* without a directive
RoutePayloads(routeKey) ==
    CASE routeKey = "GET_users" ->
            {EmptyPayload, [EmptyPayload EXCEPT !.cache = CacheFalse]}
      [] routeKey = "GET_user_by_id" ->
            {[EmptyPayload EXCEPT !.params = Obj(<<Entry(idKey, Str(one))>>), !.cache = cc] :
                cc \in {CacheUndefined, CacheObj(60000, userIdKey)}}
      [] routeKey = "PUT_user" ->
            {[EmptyPayload EXCEPT !.params = Obj(<<Entry(idKey, Str(one))>>),
                                  !.body = Body(<<"text">>), !.cache = cc] :
                cc \in {CacheUndefined, CacheTrue}}
      [] OTHER -> {}

\* calls of the routes that declare `cache` and a placeholder in
\* `invalidates`, answered 200, over a cache the caller also sets directly
NextRoutes ==
    \/ \E c \in Calls, routeKey \in RouteKeys :
          \E payload \in RoutePayloads(routeKey) : Call(c, routeKey, payload)
    \/ \E c \in Calls : FetchResolves(c, 200, <<"[", "]">>)
    \/ \E c \in Calls : JsonResolves(c)
    \/ CacheSetOp(KeyOf(client.nextKey), Object(client.nextRef, <<"a">>), 300000)
    \/ CacheSetOp(allUsersListKey, Object(client.nextRef, <<"a">>), 300000)

SpecRoutes == Init /\ [][NextRoutes]_vars


\* what the caller passes to cache.set around a full cache: a new object
\* under a key of its own making, the empty key or one of its first keys
EvictionSetInputs ==
    {<<key, Object(client.nextRef, <<"a">>), 300000>> :
        key \in {KeyOf(client.nextKey), <<>>, KeyOf(1), KeyOf(2)}}

\* the cache manager filled to one entry below its capacity, with sets,
\* gets, an invalidation and clear before and after
NextEviction ==
    \/ \E in \in EvictionSetInputs : CacheSetOp(in[1], in[2], in[3])
    \/ \E key \in {KeyOf(1), KeyOf(2)} : CacheGetOp(key)
    \/ CacheInvalidateOp(<<KeyOf(maxSize)>>)
    \/ CacheClearOp
    \/ FillCache(maxSize - 1, 300000)

SpecEviction == Init /\ [][NextEviction]_vars


\* the functions registered in the interceptor specification
RequestInterceptors == {"addPage", "logRequest", "rejectRequest"}
ResponseInterceptors == {"readBody", "rejectResponse"}
ErrorInterceptors == {"logError", "wrapError", "rethrow"}

\* the payloads of the interceptor specification: a cached GET, a GET
\* whose parameter is null, and a mutation
InterceptorPayloads(routeKey) ==
    CASE routeKey = "getUsers" ->
            {[EmptyPayload EXCEPT !.cache = CacheTrue]}
      [] routeKey = "getUserById" ->
            {[EmptyPayload EXCEPT !.params = Obj(<<Entry(idKey, NullV)>>)]}
      [] routeKey = "deleteUser" ->
            {[EmptyPayload EXCEPT !.params = Obj(<<Entry(idKey, Str(one))>>)]}
      [] OTHER -> {}

\* interceptors are registered at any time while calls are made against a
\* transport that answers or fails
NextInterceptors ==
    \/ \E f \in RequestInterceptors : AddRequestInterceptor(f)
    \/ \E f \in ResponseInterceptors : AddResponseInterceptor(f)
    \/ \E f \in ErrorInterceptors : AddErrorInterceptor(f)
    \/ \E c \in Calls, routeKey \in RouteKeys :
          \E payload \in InterceptorPayloads(routeKey) : Call(c, routeKey, payload)
    \/ \E c \in Calls : FetchResolves(c, 200, <<"[", "]">>)
    \/ \E c \in Calls : FetchRejects(c)
    \/ \E c \in Calls : JsonResolves(c)

SpecInterceptors == Init /\ [][NextInterceptors]_vars

\* the sockets of the websocket routes: two event names, two handlers, a
\* string and a non-string to send
SocketEvents == {<<"m", "e", "s", "s", "a", "g", "e">>, <<"c", "l", "o", "s", "e">>}
SocketHandlers == {"h1", "h2"}
SocketData == {Str(<<"a">>), Num(<<"1">>)}

NextSockets ==
    \/ \E r \in DOMAIN socketRoutes : WsConnectOp(r)
    \/ \E r \in DOMAIN socketRoutes, e \in SocketEvents, h \in SocketHandlers : WsOnOp(r, e, h)
    \/ \E r \in DOMAIN socketRoutes, e \in SocketEvents, h \in SocketHandlers : WsOffOp(r, e, h)
    \/ \E r \in DOMAIN socketRoutes, d \in SocketData : WsSendOp(r, d)
    \/ \E r \in DOMAIN socketRoutes : WsCloseOp(r)
    \/ \E ws \in 1..Len(sockets.made) : SocketOpens(ws)
    \/ \E ws \in 1..Len(sockets.made) : SocketCloses(ws)
    \/ \E ws \in 1..Len(sockets.made) : CloseEvent(ws)

SpecSockets == Init /\ [][NextSockets]_vars

\* origins and route tables handed to the constructor
Origins ==
    {UndefinedV, NullV, Str(<<>>), Str(<<"a", "p", "i">>), Str(<<"/", "a", "p", "i">>),
     Str(<<"h", "t", "t", "p", ":", "/", "/">>), Str(apiOrigin), Str(apiOrigin \o <<"/">>)}
RouteTables ==
    {UndefinedV, NullV, Str(<<>>), Str(<<"a">>), Function,
     RouteTable(<<>>, {}),
     RouteTable(<<[name |-> "getUsers", def |-> RouteDef("get")]>>, {"inherited"}),
     RouteTable(<<[name |-> "getUsers", def |-> RouteDef("get")],
                  [name |-> "wsConnect", def |-> RouteDef("websocket")]>>, {}),
     RouteTable(<<[name |-> "getUsers", def |-> RouteDef("get")],
                  [name |-> "wsConnect", def |-> NullV]>>, {}),
     RouteTable(<<[name |-> "getUsers", def |-> Str(<<"a">>)]>>, {})}
CallableNames == {"getUsers", "wsConnect", "inherited"}

NextConstruct ==
    \/ \E o \in Origins, r \in RouteTables : Construct(o, r)
    \/ \E name \in CallableNames : Invoke(name)

SpecConstruct == Init /\ [][NextConstruct]_vars

\* header objects: one name, the same name in lower case, another name
HeaderObjects ==
    {Obj(<<Entry(xApiKey, <<v>>)>>) : v \in {"a", "b"}}
    \cup {Obj(<<Entry(ToLowerCase(xApiKey), <<"c">>)>>), Obj(<<Entry(accept, <<"a">>)>>)}

HeaderPayloads(routeKey) ==
    CASE routeKey \in {"getUsers", "getKeyed"} ->
            {EmptyPayload} \cup {[EmptyPayload EXCEPT !.headers = h] : h \in HeaderObjects}
      [] routeKey = "createUser" ->
            {[EmptyPayload EXCEPT !.body = Body(<<f>>), !.headers = h] :
                f \in {"text", "file", "files"},
                h \in {Undefined, Obj(<<Entry(contentType, applicationJson)>>)}}
            \cup {[EmptyPayload EXCEPT !.body = Body(<<"text", "file">>)]}
      [] OTHER -> {}

\* calls with headers, of routes with and without headers, under defaults
\* set before and between them
NextHeaders ==
    \/ \E c \in Calls, routeKey \in RouteKeys :
          \E payload \in HeaderPayloads(routeKey) : Call(c, routeKey, payload)
    \/ \E c \in Calls : FetchResolves(c, 200, <<"[", "]">>)
    \/ \E c \in Calls : XhrLoads(c, 200, <<"[", "]">>)
    \/ \E h \in HeaderObjects : setDefaultHeaders(h)

SpecHeaders == Init /\ [][NextHeaders]_vars

\* the payloads of the failure specification: a cached GET, a cached GET
\* whose parameter is null, and a mutation whose route invalidates, each
\* with a timeout the clock can reach
FailurePayloads(routeKey) ==
    CASE routeKey = "getUsers" ->
            {[EmptyPayload EXCEPT !.timeout = 1, !.cache = CacheObj(1, usersListKey)]}
      [] routeKey = "getUserById" ->
            {[EmptyPayload EXCEPT !.timeout = 1, !.cache = CacheTrue,
                                  !.params = Obj(<<Entry(idKey, NullV)>>)]}
      [] routeKey = "createUser" ->
            {[EmptyPayload EXCEPT !.timeout = 1, !.body = Body(<<"text">>)]}
      [] OTHER -> {}

\* calls that are answered, refused, fail in transport or time out, over a
\* cache the caller also fills with an entry that expires
NextFailures ==
    \/ \E c \in Calls, routeKey \in RouteKeys :
          \E payload \in FailurePayloads(routeKey) : Call(c, routeKey, payload)
    \/ \E c \in Calls, status \in Statuses : FetchResolves(c, status, <<"[", "]">>)
    \/ \E c \in Calls : FetchRejects(c)
    \/ \E c \in Calls : TimerFires(c)
    \/ \E c \in Calls : JsonResolves(c)
    \/ CacheSetOp(usersListKey, Object(client.nextRef, <<"a">>), 1)
    \/ Tick

SpecFailures == Init /\ [][NextFailures]_vars

nullText == <<"n", "u", "l", "l">>

\* the payloads of the key specification: cached GET calls whose queries
\* hold a null, the text "null" or a number, whose parameter is a number or
\* a text with a query in it, and calls that pass an override key
KeyPayloads(routeKey) ==
    CASE routeKey = "getUsers" ->
            {[EmptyPayload EXCEPT !.query = q, !.cache = CacheTrue] :
                q \in {Undefined, Obj(<<Entry(pageKey, NullV)>>),
                       Obj(<<Entry(pageKey, Str(nullText))>>),
                       Obj(<<Entry(pageKey, Num(one))>>)}}
            \cup {[EmptyPayload EXCEPT !.cache = CacheObj(0, usersListKey)]}
      [] routeKey = "getUserById" ->
            {[EmptyPayload EXCEPT !.params = Obj(<<Entry(idKey, Str(id))>>), !.query = q,
                                  !.cache = CacheTrue] :
                id \in {one, one \o <<"?">> \o pageKey \o <<"=">> \o one},
                q \in {Undefined, Obj(<<Entry(pageKey, Num(one))>>)}}
            \cup {[EmptyPayload EXCEPT !.params = Obj(<<Entry(idKey, Str(one))>>),
                                       !.cache = CacheObj(0, usersListKey)]}
      [] OTHER -> {}

\* cached GET calls answered 200
NextKeys ==
    \/ \E c \in Calls, routeKey \in RouteKeys :
          \E payload \in KeyPayloads(routeKey) : Call(c, routeKey, payload)
    \/ \E c \in Calls, body \in {<<"[", "]">>, <<"1">>} : FetchResolves(c, 200, body)
    \/ \E c \in Calls : JsonResolves(c)

SpecKeys == Init /\ [][NextKeys]_vars

\* the base addresses handed to setBaseURL, and cached GET calls
stagingOrigin == <<"h", "t", "t", "p", ":", "/", "/", "s", "t", "g">>
BaseURLs == {apiOrigin, stagingOrigin, stagingOrigin \o <<"/">>}

BasePayloads(routeKey) ==
    CASE routeKey = "getUsers" ->
            {[EmptyPayload EXCEPT !.query = q, !.cache = cc] :
                q \in {Undefined, pageLimit}, cc \in {CacheUndefined, CacheTrue}}
      [] OTHER -> {}

NextBase ==
    \/ \E c \in Calls, routeKey \in RouteKeys :
          \E payload \in BasePayloads(routeKey) : Call(c, routeKey, payload)
    \/ \E c \in Calls, body \in Bodies : FetchResolves(c, 200, body)
    \/ \E c \in Calls : JsonResolves(c)
    \/ \E url \in BaseURLs : setBaseURL(url)

SpecBase == Init /\ [][NextBase]_vars

\* the handles of the sse route, with and without a query
topicKey == <<"t", "o", "p", "i", "c">>
StreamPayloads ==
    {EmptyPayload, [EmptyPayload EXCEPT !.query = Obj(<<Entry(topicKey, Str(<<"n">>))>>)]}

NextStreams ==
    \/ \E r \in DOMAIN sseRoutes, payload \in StreamPayloads : SseHandle(r, payload)
    \/ \E h \in 1..Len(streams.handles) : SseConnectOp(h)
    \/ \E h \in 1..Len(streams.handles), e \in SocketEvents, handler \in {"h1"} :
          SseOnOp(h, e, handler)
    \/ \E h \in 1..Len(streams.handles) : SseCloseOp(h)
    \/ \E es \in 1..Len(streams.made) : EventSourceOpens(es)
    \/ \E es \in 1..Len(streams.made) : EventSourceFails(es)

SpecStreams == Init /\ [][NextStreams]_vars

----------------------------------------------------------------------------
(* Claims. *)

\* the call went to the network, got a 2xx answer and resolved
Fetched2xx(call) ==
    /\ call.pc = "resolved"
    /\ ~call.response.fromCache
    /\ Ok(call.response.status)

\* two objects of a payload hold the same entries, in whatever order
SameContents(a, b) ==
    /\ a.present = b.present
    /\ Len(a.entries) = Len(b.entries)
    /\ {a.entries[i] : i \in 1..Len(a.entries)} = {b.entries[i] : i \in 1..Len(b.entries)}

\* the second invocation is a GET with a cache directive, made after the
\* first one (same route, same directive) was answered 2xx by the network,
\* and within the directive's ttl of it
SecondWithinTtl ==
    /\ Fetched2xx(calls[1])
    /\ calls[2].pc # "idle"
    /\ routes[calls[1].routeKey].method = "get"
    /\ calls[2].routeKey = calls[1].routeKey
    /\ CacheConfigTruthy(calls[1].payload)
    /\ calls[2].payload.cache = calls[1].payload.cache
    /\ 1 \in calls[2].after
    /\ calls[2].startedAt <= calls[1].storedAt + TtlOf(calls[1].payload.cache)

\* C1: a call without a cache directive that resolves has invoked the
\* transport exactly once, however many calls came before it; and the second
\* of two calls with the same params, query and cache directive, made within
\* ttl of the first one's 2xx answer, invokes no transport and returns
\* fromCache = true, whatever body the first one received.
C1_SecondCallFromCache ==
    /\ \A c \in Calls :
          calls[c].pc = "resolved" /\ ~CacheConfigTruthy(calls[c].payload)
              => NetCalls(calls[c]) = 1 /\ ~calls[c].response.fromCache
    /\ (SecondWithinTtl /\ calls[2].payload = calls[1].payload)
          => /\ calls[2].pc = "resolved"
             /\ calls[2].response.fromCache
             /\ NetCalls(calls[2]) = 0

\* C2: two cached calls to the same GET route whose params and query hold
\* the same entries get the same cache key whatever the order of the
\* entries, and the second is served with fromCache = true.
C2_KeyIgnoresEnumerationOrder ==
    (/\ SecondWithinTtl
     /\ Truthy(DecodeBody(calls[1].response.body))
     /\ SameContents(calls[1].payload.params, calls[2].payload.params)
     /\ SameContents(calls[1].payload.query, calls[2].payload.query))
        => /\ buildCacheKey(routes[calls[1].routeKey], calls[1].payload, calls[1].payload.cache)
                = buildCacheKey(routes[calls[2].routeKey], calls[2].payload, calls[2].payload.cache)
           /\ calls[2].pc = "resolved"
           /\ calls[2].response.fromCache

\* the key contains one of the patterns, or one of them matches it as a
\* wildcard expression
KeyMatches(key, patterns) ==
    \E i \in 1..Len(patterns) :
        \/ Includes(key, patterns[i])
        \/ ~RegExpInvalid(patterns[i]) /\ RegExpMatch(key, patterns[i])

\* the step in which invocation c resolves with a 2xx answer on a route
\* that declares `invalidates`
MutationCompletes(c) ==
    /\ calls[c].pc # "resolved"
    /\ calls'[c].pc = "resolved"
    /\ routes[calls'[c].routeKey].invalidates # <<>>
    /\ Ok(calls'[c].response.status)

\* C3: when a call to a route that declares `invalidates` resolves with a
\* 2xx answer, no cache entry is left whose key matches one of the declared
\* patterns: cache.get of every such key returns null.
C3_MutationInvalidates ==
    [][\A c \in Calls :
          MutationCompletes(c) =>
              \A key \in CacheKeys(cache) \cup CacheKeys(cache') :
                  KeyMatches(key, routes[calls'[c].routeKey].invalidates)
                      => /\ key \notin CacheKeys(cache')
                         /\ CacheGet(cache', key, now', 0).value = NullV]_vars

\* a cached GET stored its answer, then the mutation route resolved 2xx, and
\* the key the GET was stored under is gone
C3_Witness ==
    /\ Fetched2xx(calls[1])
    /\ calls[1].storedAt = now
    /\ Len(calls[1].log) > 0 /\ calls[1].log[Len(calls[1].log)] = Event("cache.set", "")
    /\ KeyMatches(buildCacheKey(routes[calls[1].routeKey], calls[1].payload, calls[1].payload.cache),
                  routes.createUser.invalidates)
    /\ calls[2].routeKey = "createUser"
    /\ Fetched2xx(calls[2])
    /\ 1 \in calls[2].after
    /\ cache = <<>>

\* the route's path holds a placeholder the payload supplies no value for:
\* params absent, without the key, or with the key null
MissesParameter(call) ==
    /\ Includes(routes[call.routeKey].path, <<":">> \o idKey)
    /\ \A i \in 1..Len(call.payload.params.entries) :
          call.payload.params.entries[i].k = idKey
              => call.payload.params.entries[i].v.t = "null"

\* C4: a call to a route whose path holds a placeholder, made without a
\* value for it, rejects with the missing-parameter error and invokes no
\* transport.
C4_MissingParameterRejects ==
    \A c \in Calls :
        calls[c].pc # "idle" /\ MissesParameter(calls[c])
            => /\ calls[c].pc = "rejected"
               /\ calls[c].error.kind = "MissingParameter"
               /\ NetCalls(calls[c]) = 0


\* the timeout in force for the call: the payload's, else the client default
\* at the time of the call
EffectiveTimeout(call) ==
    IF call.payload.timeout # 0 THEN call.payload.timeout ELSE call.defaultAtStart

\* the transport was invoked and has neither answered nor failed
TransportSilent(call) ==
    \/ call.pc \in {"fetch", "xhr"}
    \/ call.pc = "rejected" /\ call.error.kind = "Timeout"

\* C5: once the effective timeout of a call has elapsed with the transport
\* silent, the call has rejected with the timeout error that names the
\* effective timeout.
C5_TimeoutNamesEffective ==
    \A c \in Calls :
        /\ TransportSilent(calls[c])
        /\ now > calls[c].startedAt + EffectiveTimeout(calls[c])
        => /\ calls[c].pc = "rejected"
           /\ calls[c].error.kind = "Timeout"
           /\ calls[c].error.ms = EffectiveTimeout(calls[c])

\* C6: on the fetch path and on the multipart path alike, no call is still
\* waiting for its transport after its effective timeout has elapsed.
C6_SettlesByTimeout ==
    \A c \in Calls :
        calls[c].pc \in Pending
            => now <= calls[c].startedAt + EffectiveTimeout(calls[c])

\* C7: a call whose caller aborted the signal it passed while the transport
\* call was pending has rejected, with the abort/timeout error.
C7_SignalAbortRejects ==
    \A c \in Calls :
        calls[c].aborted
            => /\ calls[c].pc = "rejected"
               /\ calls[c].error.kind = "Timeout"

\* C8: a call that rejects because its transport attempts failed has made as
\* many attempts as its retry directive says; a call without a retry
\* directive invokes the transport at most once.
C8_RetriesAttempts ==
    \A c \in Calls :
        /\ calls[c].payload.retry = 0 => NetCalls(calls[c]) <= 1
        /\ (/\ calls[c].payload.retry > 0
            /\ calls[c].pc = "rejected"
            /\ calls[c].error.kind \in {"Network", "Timeout"})
              => NetCalls(calls[c]) = calls[c].payload.retry


\* the interceptors of one stage that a call has invoked, in order
Ran(call, stage) ==
    LET es == SelectSeq(call.log, LAMBDA e : e[1] = stage)
    IN  [i \in 1..Len(es) |-> es[i][2]]

\* a step of the call has failed
Threw(call) == \E i \in 1..Len(call.log) : call.log[i][1] = "throw"

\* the call settles as rejected in this step
Rejects(c) == calls[c].pc # "rejected" /\ calls'[c].pc = "rejected"

\* what holds of error interceptors whether or not one of them throws: a
\* failed call is rejected, never resolved, and a call that resolves has
\* invoked none
FailureRejects(call) ==
    /\ Threw(call) => call.pc = "rejected"
    /\ call.pc = "rejected" => Threw(call)
    /\ call.pc = "resolved" => Ran(call, "error") = <<>>

\* C9 (as stated): whenever a step of a call fails, every registered error
\* interceptor is applied exactly once in registration order, each receiving
\* the error returned by the previous one, and the call rejects with the last
\* interceptor's result; a failed call never resolves, and a call that
\* succeeds invokes no error interceptor.
C9_EveryErrorInterceptorApplied ==
    [][\A c \in Calls :
          /\ FailureRejects(calls'[c])
          /\ Rejects(c) =>
                /\ Ran(calls'[c], "error") = interceptors.error
                /\ calls'[c].error.by =
                      SelectSeq(interceptors.error, LAMBDA f : f \notin ErrorThrowers)]_vars

\* C9 (amended): whenever a step of a call fails the call rejects and never
\* resolves, and a call that succeeds invokes no error interceptor; the error
\* interceptors are applied once each in registration order up to the first
\* one that throws, each receiving the error returned by the previous one,
\* and the call rejects with the error the last of them returned or
\* re-threw; when none throws, every registered one is applied.
C9_ErrorInterceptorsFold ==
    [][\A c \in Calls :
          /\ FailureRejects(calls'[c])
          /\ Rejects(c) =>
                LET errs == interceptors.error
                    throwers == {i \in 1..Len(errs) : errs[i] \in ErrorThrowers}
                    last == IF throwers = {} THEN Len(errs)
                            ELSE CHOOSE i \in throwers : \A j \in throwers : i <= j
                    returned == IF throwers = {} THEN last ELSE last - 1
                IN  /\ Ran(calls'[c], "error") = SubSeq(errs, 1, last)
                    /\ calls'[c].error.by = SubSeq(errs, 1, returned)]_vars

\* a transport failure has gone through two error interceptors, registered
\* in this order, and the call is rejected with the result of the second
C9_Witness ==
    \E c \in Calls :
        /\ calls[c].pc = "rejected"
        /\ calls[c].error.kind = "Network"
        /\ interceptors.error = <<"wrapError", "logError">>
        /\ calls[c].error.by = <<"wrapError", "logError">>

\* C10: request interceptors run in registration order as a left fold, the
\* configuration handed to the transport is the one the last interceptor
\* returned, and all of them have run before the cache lookup and before any
\* network activity.
C10_RequestInterceptorsFold ==
    [][\A c \in Calls :
          LET call == calls'[c]
              reqs == interceptors.request
              log == call.log
          IN  /\ \A i, j \in 1..Len(log) :
                    /\ log[i][1] = "request"
                    /\ log[j][1] \in {"cache.get", "fetch", "xhr.send"}
                    => i < j
              /\ (/\ calls[c].pc = "idle"
                  /\ call.pc # "idle"
                  /\ \A i \in 1..Len(reqs) : reqs[i] \notin RequestThrowers)
                 => /\ Ran(call, "request") = reqs
                    /\ call.config.by = reqs
                    /\ call.pc = "fetch" =>
                          /\ call.url = buildUrl(routes[call.routeKey], call.config).url
                          /\ (\E i \in 1..Len(reqs) : reqs[i] = "addPage")
                                <=> Includes(call.url, <<"?", "p", "a", "g", "e", "=", "1">>)]_vars

\* a call has gone to the network through two request interceptors
\* registered in this order, with the query the second of them added
C10_Witness ==
    \E c \in Calls :
        /\ calls[c].pc = "fetch"
        /\ interceptors.request = <<"logRequest", "addPage">>
        /\ calls[c].config.by = <<"logRequest", "addPage">>
        /\ calls[c].url = origin \o usersPath \o <<"?", "p", "a", "g", "e", "=", "1">>
        /\ Ran(calls[c], "request") = <<"logRequest", "addPage">>

\* C11: a call whose transport answers with a status outside 200..299 is
\* reported to the caller as a thrown error: it rejects, it does not resolve.
C11_Non2xxRejects ==
    \A c \in Calls :
        /\ calls[c].pc \in Settled
        /\ NetCalls(calls[c]) > 0
        /\ calls[c].response.status # 0
        /\ ~Ok(calls[c].response.status)
        => calls[c].pc = "rejected"

\* C12: the payload a call resolves with has cached = TRUE exactly when a
\* cache directive was supplied and the route's method is GET, and
\* fromCache = TRUE exactly when it was produced without a network call.
C12_CachedAndFromCacheFlags ==
    \A c \in Calls :
        calls[c].pc = "resolved"
            => /\ calls[c].response.cached
                    <=> /\ CacheConfigTruthy(calls[c].payload)
                        /\ routes[calls[c].routeKey].method = "get"
               /\ calls[c].response.fromCache <=> NetCalls(calls[c]) = 0

\* the values are deep-equal: same type, same contents
DeepEqual(v, w) == v.t = w.t /\ v.s = w.s

\* what get returned is a copy of what the caller last passed to set under
\* the key, and an object that neither the caller nor the cache held before
ReturnsOwnCopy(got, key) ==
    /\ got # NullV =>
          \E i \in 1..Len(client.sent) :
              client.sent[i].key = key /\ DeepEqual(got, client.sent[i])
    /\ IsObject(got) =>
          /\ \A i \in 1..Len(client.held) : client.held[i].ref # got.ref
          /\ \A j \in 1..Len(cache') :
                IsObject(cache'[j].data) => cache'[j].data.ref # got.ref

\* the step is a get
Gets == client'.last.op = "get" /\ client'.ops # client.ops

\* the step is a get of the key that the step before it has set, the clock
\* not having moved
GetRightAfterSet ==
    /\ client'.last.op = "get"
    /\ client.last.op = "set"
    /\ client.last.key = client'.last.key
    /\ client.last.at = now

\* C13 (as stated): for any key, value and ttl, set(k, v, ttl) followed
\* immediately by get(k) returns a value deep-equal to v that is a distinct
\* copy, and no later mutation of v or of a value get returned changes what
\* get(k) returns.
C13_SetThenGetAnyValue ==
    [][/\ GetRightAfterSet =>
            /\ DeepEqual(client'.last.value, client.last.value)
            /\ IsObject(client.last.value) => client'.last.value.ref # client.last.value.ref
       /\ Gets => ReturnsOwnCopy(client'.last.value, client'.last.key)]_vars

\* C13 (amended): for any key, any value that structuredClone accepts and
\* any ttl >= 0, set(k, v, ttl) followed immediately by get(k) returns a
\* value deep-equal to v that is a distinct copy; whatever get returns is a
\* copy of what was last stored under the key, so no later mutation of v or
\* of a value get returned changes it.
C13_SetThenGetCopies ==
    [][/\ (/\ GetRightAfterSet
            /\ ~Uncloneable(client.last.value)
            /\ client.last.ttl >= 0) =>
            /\ DeepEqual(client'.last.value, client.last.value)
            /\ IsObject(client.last.value) => client'.last.value.ref # client.last.value.ref
       /\ Gets => ReturnsOwnCopy(client'.last.value, client'.last.key)]_vars

\* the caller has stored an object and written to it afterwards, and get
\* has returned a new object with the contents that were stored
C13_Witness ==
    /\ client.last.op = "get"
    /\ client.last.value = Object(client.nextRef - 1, <<"a">>)
    /\ client.held = <<Object(1, <<"b">>), client.last.value>>
    /\ client.sent = <<[key |-> client.last.key, s |-> <<"a">>, t |-> "object"]>>

\* the step is an operation of the caller on the cache
Operates(op) == client'.last.op = op /\ client'.ops # client.ops

\* the entry stored under the key
EntryOf(c, key) == c[CHOOSE i \in 1..Len(c) : c[i].key = key]

\* C14: cache.get(k) on an entry whose expiry time (set time + ttl) has
\* passed returns null and removes exactly that entry; an unexpired entry is
\* returned; an expired entry leaves the cache only by a read of its key, an
\* eviction, invalidate or clear: the passing of time removes nothing.
C14_ExpiryOnRead ==
    [][/\ (Operates("set") /\ ~client'.last.threw) =>
            EntryOf(cache', client'.last.key).expires = now + client'.last.ttl
       /\ (Operates("get") /\ client'.last.key \in CacheKeys(cache)) =>
            LET key == client'.last.key
                entry == EntryOf(cache, key)
            IN  IF now > entry.expires
                THEN /\ client'.last.value = NullV
                     /\ cache' = SelectSeq(cache, LAMBDA e : e.key # key)
                ELSE /\ DeepEqual(client'.last.value, entry.data)
                     /\ cache' = cache
       /\ \A key \in CacheKeys(cache) \ CacheKeys(cache') :
            \/ Operates("get") /\ client'.last.key = key /\ now > EntryOf(cache, key).expires
            \/ Operates("set") /\ Len(cache) >= maxSize
            \/ Operates("invalidate")
            \/ Operates("clear")]_vars

\* an entry whose expiry time has passed is read at time 2: get returns
\* null and the entry is gone, the other entry is still there
C14_Witness ==
    /\ now = 2
    /\ client.ops = 3
    /\ client.last.op = "get"
    /\ client.last.key = KeyOf(1)
    /\ client.last.value = NullV
    /\ \E i \in 1..Len(client.sent) : client.sent[i].key = KeyOf(1)
    /\ CacheKeys(cache) = {KeyOf(2)}

\* C15: after any sequence of cache operations, with arbitrary string keys,
\* the empty string included, the cache holds at most 100 entries.
C15_AtMostMaxSize ==
    Len(cache) <= maxSize

\* the keys of the Map, in insertion order
KeyOrder(c) == [i \in 1..Len(c) |-> c[i].key]

\* C16: each set on a full cache evicts exactly one entry, the
\* oldest-inserted one, so that inserting more than 100 entries retains
\* exactly the most recently inserted keys up to the bound; a get never
\* changes the eviction order.
C16_EvictsOldestInserted ==
    [][/\ (Operates("set") /\ Len(cache) >= maxSize) =>
            LET key == client'.last.key
            IN  /\ CacheKeys(cache) \ CacheKeys(cache') \subseteq {cache[1].key}
                /\ cache[1].key # key => cache[1].key \notin CacheKeys(cache')
                /\ key \notin CacheKeys(cache) =>
                      /\ Len(cache') = maxSize
                      /\ KeyOrder(cache') = Tail(KeyOrder(cache)) \o <<key>>
       /\ Operates("get") => KeyOrder(cache') = KeyOrder(cache)]_vars

\* the pattern, read as a wildcard expression in which "*" stands for any
\* sequence of characters and every other character for itself, matches a
\* prefix of s
RECURSIVE GlobHere(_, _)
GlobHere(p, s) ==
    IF p = <<>> THEN TRUE
    ELSE IF Head(p) = "*"
    THEN \E k \in 0..Len(s) : GlobHere(Tail(p), SubSeq(s, k + 1, Len(s)))
    ELSE s # <<>> /\ Head(p) = Head(s) /\ GlobHere(Tail(p), Tail(s))

\* the key contains a pattern, or a match of a pattern read as a wildcard
\* expression
GlobMatches(key, patterns) ==
    \E i \in 1..Len(patterns) :
        \/ Includes(key, patterns[i])
        \/ \E j \in 1..(Len(key) + 1) : GlobHere(patterns[i], SubSeq(key, j, Len(key)))

\* C17: cache.invalidate(patterns) deletes a stored key if and only if the
\* key contains some pattern as a literal substring or matches some pattern
\* read as a wildcard expression in which `*` stands for any sequence of
\* characters and every other character for itself; the other keys and
\* their values are left untouched.
C17_InvalidateIffMatches ==
    [][(Operates("invalidate") /\ ~client'.last.threw) =>
          cache' = SelectSeq(cache, LAMBDA e : ~GlobMatches(e.key, client'.last.patterns))]_vars

\* C18: a GET route whose definition declares `cache: {ttl, key}` is cached
\* under that key and ttl on calls that pass no cache directive: the second
\* such call within the ttl is served from the cache; a per-call
\* `cache: false` disables it.
C18_RouteLevelCache ==
    /\ (/\ Fetched2xx(calls[1])
        /\ calls[2].pc # "idle"
        /\ calls[2].routeKey = calls[1].routeKey
        /\ CacheConfigTruthy([cache |-> routes[calls[1].routeKey].cache])
        /\ calls[1].payload = EmptyPayload
        /\ calls[2].payload = EmptyPayload
        /\ 1 \in calls[2].after)
       => /\ calls[2].pc = "resolved"
          /\ calls[2].response.fromCache
          /\ NetCalls(calls[2]) = 0
    /\ \A c \in Calls :
          calls[c].pc # "idle" /\ calls[c].payload.cache = CacheFalse
              => ~calls[c].response.fromCache

\* C19: when a route declares an invalidation pattern with a placeholder
\* (`invalidates: ["user-:id"]`), a call with params {id: X} that resolves
\* 2xx removes the cache entry keyed `user-X` and leaves the entries of the
\* other ids in place.
C19_InvalidatesSubstituted ==
    [][\A c \in Calls :
          (/\ calls[c].pc # "resolved"
           /\ calls'[c].pc = "resolved"
           /\ calls'[c].routeKey = "PUT_user"
           /\ Ok(calls'[c].response.status))
          => LET removed == SubstituteParams(userIdKey, calls'[c].payload.params.entries)
             IN  /\ removed \notin CacheKeys(cache')
                 /\ \A n \in 1..client.nextKey :
                       (KeyOf(n) # removed /\ KeyOf(n) \in CacheKeys(cache))
                           => KeyOf(n) \in CacheKeys(cache')]_vars

\* a step is the call `op` on the socket manager
SocketOperates(op) == sockets'.last.op = op /\ sockets'.ops # sockets.ops

\* the connection the table holds for the url is open
IsOpen(m, url) == WsSocket(m, url) # 0 /\ m.made[WsSocket(m, url)].readyState = "OPEN"

messageEvent == <<"m", "e", "s", "s", "a", "g", "e">>

\* C21: a send made right after connect() and on("message", handler), while
\* the connection is still CONNECTING, does not throw.
C21_SendBeforeOpenAccepted ==
    [][(/\ SocketOperates("send")
        /\ sockets.last.op = "on"
        /\ sockets.last.url = sockets'.last.url
        /\ MapHas(sockets.eventHandlers, HandlerKey(sockets.last.url, messageEvent))
        /\ WsSocket(sockets, sockets.last.url) # 0
        /\ sockets.made[WsSocket(sockets, sockets.last.url)].readyState = "CONNECTING")
          => ~sockets'.last.threw]_vars

\* the sockets constructed for the url whose connection has not been closed
Live(m, url) ==
    {ws \in 1..Len(m.made) : m.made[ws].url = url /\ m.made[ws].readyState # "CLOSED"}

\* C22: connect for an address the table holds changes nothing; connect
\* for an address the table does not hold constructs one socket, which
\* socket() returns, and changes nothing else; no address has two
\* connections at a time, whichever routes' handles were used.
C22_ConnectIdempotent ==
    /\ [][SocketOperates("connect")
            => LET url == sockets'.last.url
               IN  IF MapHas(sockets.connections, url)
                   THEN /\ sockets'.connections = sockets.connections
                        /\ sockets'.made = sockets.made
                        /\ sockets'.eventHandlers = sockets.eventHandlers
                   ELSE /\ Len(sockets'.made) = Len(sockets.made) + 1
                        /\ SubSeq(sockets'.made, 1, Len(sockets.made)) = sockets.made
                        /\ sockets'.made[Len(sockets'.made)] = WebSocket(url)
                        /\ WsSocket(sockets', url) = Len(sockets'.made)
                        /\ MapDelete(sockets'.connections, url) = sockets.connections
                        /\ sockets'.eventHandlers = sockets.eventHandlers]_vars
    /\ [](\A r \in DOMAIN socketRoutes :
            Cardinality(Live(sockets, WsUrl(socketRoutes[r]))) <= 1)

\* connect(), close() and, before the close event, connect() again: the
\* second connect found the closing connection in the table
C22_Witness ==
    /\ sockets.ops = 3
    /\ sockets.last.op = "connect"
    /\ Len(sockets.made) = 1
    /\ sockets.made[1].readyState = "CLOSING"
    /\ WsSocket(sockets, sockets.last.url) = 1

\* a step is the dispatch of the close event of socket ws
Closure(ws) ==
    /\ ws <= Len(sockets.made)
    /\ ~sockets.made[ws].closeDispatched
    /\ sockets'.made[ws].closeDispatched

\* C23: when a connection signals closure, the table holds no connection
\* for its address any more and the manager holds no handler registration
\* `address:eventName` for it.
C23_ClosureRemovesBothEntries ==
    [][\A ws \in 1..Len(sockets'.made) :
          Closure(ws)
            => LET url == sockets.made[ws].url
               IN  /\ ~MapHas(sockets'.connections, url)
                   /\ \A e \in SocketEvents :
                         ~MapHas(sockets'.eventHandlers, HandlerKey(url, e))]_vars

\* the base address is missing or empty, or does not parse as an absolute URL
BadOrigin(o) == o.t \in {"undefined", "null"} \/ o.s = <<>> \/ ~UrlParses(String(o))
\* the route table is absent or not an object
BadRoutes(r) == r.t \in {"undefined", "null"} \/ TypeOf(r) # "object"
\* the own route names of the table handed in
OwnNames(r) == {r.own[i].name : i \in 1..Len(r.own)}
\* every own entry of the table is a route definition, or at least a value
\* whose `method` can be read
EntriesReadable(r) == \A i \in 1..Len(r.own) : r.own[i].def.t \notin {"null", "undefined"}
\* the construction returned a client with one callable per own route name
Exposes(r) ==
    /\ ~construction.result.threw
    /\ {construction.result.callables[i].name :
           i \in 1..Len(construction.result.callables)} = OwnNames(r)
    /\ Len(construction.result.callables) = Len(r.own)
    /\ construction.invoked # "" => (construction.usable <=> construction.invoked \in OwnNames(r))

\* C24: construction throws, and no route callable is usable, exactly when
\* the base address is missing or empty or is no absolute URL, or the route
\* table is absent or no object; otherwise it exposes one callable per own
\* route name.
C24_ConstructionThrowsExactlyWhen ==
    construction.made
        => LET o == construction.options.origin
               r == construction.options.routes
           IN  IF BadOrigin(o) \/ BadRoutes(r)
               THEN construction.result.threw /\ ~construction.usable
               ELSE Exposes(r)

\* C24, amended: construction throws, and no route callable is usable,
\* whenever the base address is missing or empty or is no absolute URL, or
\* the route table is absent or no object; when neither is the case and
\* every own entry of the table is a route definition, it exposes one
\* callable per own route name.
C24_ConstructionThrowsWhen ==
    construction.made
        => LET o == construction.options.origin
               r == construction.options.routes
           IN  /\ (BadOrigin(o) \/ BadRoutes(r))
                     => construction.result.threw /\ ~construction.usable
               /\ (~BadOrigin(o) /\ ~BadRoutes(r) /\ EntriesReadable(r)) => Exposes(r)

\* a client made from an origin with a trailing slash and two routes, one
\* of them called
C24_Witness ==
    /\ construction.made
    /\ construction.options.origin = Str(apiOrigin \o <<"/">>)
    /\ Len(construction.result.callables) = 2
    /\ construction.result.origin = apiOrigin
    /\ construction.invoked = "wsConnect"
    /\ construction.usable

\* a step sends the request of call c
Sends(c) == calls[c].pc = "idle" /\ calls'[c].pc \in {"fetch", "xhr"}

\* the value given last under the name, whatever its case, in a sequence
\* of header entries that is in order of rising priority
LastUnder(entries, name) ==
    LET at == {i \in 1..Len(entries) : ToLowerCase(entries[i].k) = name}
    IN  entries[CHOOSE i \in at : \A j \in at : j <= i].v

\* the header entries of the setDefaultHeaders calls so far, of the route
\* and of the call, in that order
ByPriority(c) ==
    Concat([i \in 1..Len(client.defaults) |-> client.defaults[i].entries])
        \o HeadersOf(routes[calls'[c].routeKey]).entries
        \o calls'[c].config.headers.entries

\* C25: the headers a call sends are the accumulated client defaults,
\* overridden by the route's headers, overridden by the call's headers
\* (the Content-Type that the serializer gives a JSON body apart).
C25_HeadersByPriority ==
    [][\A c \in Calls :
          Sends(c)
            => LET entries == ByPriority(c)
                   names == {ToLowerCase(entries[i].k) : i \in 1..Len(entries)}
                   sent == calls'[c].headers
               IN  /\ \A name \in names :
                         /\ HasKey(sent, name)
                         /\ \A i \in 1..Len(sent) :
                               sent[i].k = name => sent[i].v = LastUnder(entries, name)
                   /\ \A i \in 1..Len(sent) :
                         sent[i].k \in names \cup {ToLowerCase(contentType)}]_vars

\* a step resolves call c from the cache
ResolvesFromCache(c) ==
    /\ calls[c].pc # "resolved"
    /\ calls'[c].pc = "resolved"
    /\ calls'[c].response.fromCache

\* C26: a call served from the cache makes no transport call, resolves with
\* status 200, cached and fromCache, and has passed through the registered
\* response interceptors in registration order.
C26_HitAppliesResponseInterceptors ==
    [][\A c \in Calls :
          (ResolvesFromCache(c) /\ \A i \in 1..Len(interceptors.response) :
                                      interceptors.response[i] \notin ResponseThrowers)
            => /\ NetCalls(calls'[c]) = 0
               /\ calls'[c].response.status = 200
               /\ calls'[c].response.cached
               /\ calls'[c].response.by = interceptors.response]_vars

\* the call made the cache operation `what` (cache.get, cache.set, invalidate)
Logged(call, what) == \E i \in 1..Len(call.log) : call.log[i][1] = what

\* the call is of a GET route and carries a truthy cache directive
CachingCall(call) ==
    routes[call.routeKey].method = "get" /\ CacheConfigTruthy(call.payload)

LiveEntries(c, t) == {c[i] : i \in {k \in 1..Len(c) : t <= c[k].expires}}

\* the step ends call c in a failure (missing parameter, transport error,
\* timeout) or in a response whose status is not ok
EndsFailed(c) ==
    /\ calls[c].pc \notin Settled
    /\ \/ /\ calls'[c].pc = "rejected"
          /\ calls'[c].error.kind \in {"MissingParameter", "Network", "Timeout"}
       \/ /\ calls'[c].pc = "resolved"
          /\ ~Ok(calls'[c].response.status)

\* C28: neither the start of a call nor the step in which it fails (missing
\* parameter, transport error, timeout) or resolves with a status that is
\* not ok stores or invalidates anything: the live cache entries and their
\* values are the same after the step as before it.
C28_FailureLeavesCache ==
    [][\A c \in Calls :
          (EndsFailed(c) \/ (calls[c].pc = "idle" /\ calls'[c].pc \in Pending))
            => LiveEntries(cache', now') = LiveEntries(cache, now)]_vars

\* a mutation whose route invalidates the key was refused (404) and the
\* live entry under that key is still there
C28_Witness ==
    \E c \in Calls :
        /\ calls[c].routeKey = "createUser"
        /\ calls[c].pc = "resolved"
        /\ calls[c].response.status = 404
        /\ \E e \in LiveEntries(cache, now) : e.key = usersListKey

\* the step hands call c the answer of the transport
Answered(c) ==
    /\ calls[c].pc \in {"fetch", "xhr"}
    /\ calls'[c].response.status # 0

\* C29: a call of a caching GET whose transport answered is not rejected
\* because of its cache lookup or its cache store (no response interceptor
\* throwing): it goes on to resolve with the transport's response.
C29_CacheFailureNotSurfaced ==
    [][\A c \in Calls :
          (/\ Answered(c)
           /\ CachingCall(calls[c])
           /\ \A i \in 1..Len(interceptors.response) :
                 interceptors.response[i] \notin ResponseThrowers)
            => calls'[c].pc # "rejected"]_vars

\* the components of a call's cache key: the route path with the params
\* substituted, the flattened query string, the override key
KeyComponents(call) ==
    <<IF call.payload.params.present
      THEN SubstituteParams(routes[call.routeKey].path, call.payload.params.entries)
      ELSE routes[call.routeKey].path,
      IF call.payload.query.present
      THEN SearchParamsToString(flattenQuery(call.payload.query.entries, <<>>))
      ELSE <<>>,
      call.payload.cache.key>>

CacheKeyOf(call) == buildCacheKey(routes[call.routeKey], call.payload, call.payload.cache)
RequestUrl(call) == buildUrl(routes[call.routeKey], call.payload).url

\* two caching calls that gave no override key and whose request URLs differ
DifferentRequests(a, b) ==
    /\ a.payload.cache.key = <<>>
    /\ b.payload.cache.key = <<>>
    /\ RequestUrl(a) # RequestUrl(b)

\* C30: two cached GET calls that differ in a component of the key (path
\* with params, flattened query, override key) have different cache keys;
\* in particular two calls without override key whose request URLs differ
\* have different keys, and neither is served what the other stored.
C30_CacheKeyInjective ==
    \A a, b \in Calls :
        (/\ calls[a].pc # "idle" /\ CachingCall(calls[a])
         /\ calls[b].pc # "idle" /\ CachingCall(calls[b]))
          => /\ KeyComponents(calls[a]) # KeyComponents(calls[b])
                   => CacheKeyOf(calls[a]) # CacheKeyOf(calls[b])
             /\ DifferentRequests(calls[a], calls[b])
                   => /\ CacheKeyOf(calls[a]) # CacheKeyOf(calls[b])
                      /\ ~(Fetched2xx(calls[a]) /\ calls[b].response.fromCache)

\* the body has a field that is a File or an array with a File in it
CarriesFile(payload) ==
    /\ payload.body.present
    /\ \E i \in 1..Len(payload.body.fields) : payload.body.fields[i] \in {"file", "files"}

\* C31: a call whose body has a field that is a file, or an array holding a
\* file, is sent as multipart (FormData over XMLHttpRequest), whatever
\* Content-Type it declares.
C31_FilesGoMultipart ==
    [][\A c \in Calls :
          (Sends(c) /\ CarriesFile(calls'[c].config)) => calls'[c].pc = "xhr"]_vars

\* the handlers the manager holds for the url and the event
Registered(m, url, event) ==
    IF MapHas(m.eventHandlers, HandlerKey(url, event))
    THEN MapGet(m.eventHandlers, HandlerKey(url, event))
    ELSE {}

\* C32: on(url, event, handler) records the handler whether or not the table
\* holds a connection for the url, and attaches it to that connection only
\* if there is one; a connection that connect() creates afterwards has no
\* listener attached, whatever was registered before; off() of a handler
\* that is not registered leaves the table, the registrations and the
\* sockets as they were.
C32_HandlersNotCarriedOver ==
    /\ [][SocketOperates("on")
            => LET url == sockets'.last.url
                   event == sockets'.last.event
                   handler == sockets'.last.handler
                   ws == WsSocket(sockets, url)
               IN  /\ handler \in Registered(sockets', url, event)
                   /\ sockets'.connections = sockets.connections
                   /\ IF ws # 0
                      THEN <<event, handler>> \in sockets'.made[ws].listeners
                      ELSE sockets'.made = sockets.made]_vars
    /\ [][(SocketOperates("connect") /\ Len(sockets'.made) > Len(sockets.made))
            => /\ sockets'.made[Len(sockets'.made)].listeners = {}
               /\ sockets'.eventHandlers = sockets.eventHandlers]_vars
    /\ [][(/\ SocketOperates("off")
           /\ sockets'.last.handler
                 \notin Registered(sockets, sockets'.last.url, sockets'.last.event))
            => /\ sockets'.connections = sockets.connections
               /\ sockets'.eventHandlers = sockets.eventHandlers
               /\ sockets'.made = sockets.made]_vars

\* a handler was registered while there was no connection, and the
\* connection made afterwards has no listener
C32_Witness ==
    /\ sockets.ops = 2
    /\ sockets.last.op = "connect"
    /\ Len(sockets.made) = 1
    /\ sockets.made[1].listeners = {}
    /\ \E event \in SocketEvents : Registered(sockets, sockets.last.url, event) # {}

\* a call of op on a handle of an sse route
StreamOperates(op) == streams'.last.op = op /\ streams'.ops # streams.ops

\* the EventSources that handle h made and that are not closed
OpenThrough(m, h) ==
    {es \in 1..Len(m.made) : m.made[es].handle = h /\ m.made[es].readyState # "CLOSED"}

\* C33: after close() on a handle of an sse route, no EventSource opened
\* through that handle is open; a handle never has two open EventSources;
\* and close() on one handle leaves the EventSources of the other handles
\* as they were.
C33_HandleOwnsOneEndpoint ==
    /\ [][StreamOperates("close") => OpenThrough(streams', streams'.last.handle) = {}]_vars
    /\ [](\A h \in 1..Len(streams.handles) : Cardinality(OpenThrough(streams, h)) <= 1)
    /\ [][StreamOperates("close")
            => \A es \in 1..Len(streams.made) :
                  streams.made[es].handle # streams'.last.handle
                     => streams'.made[es] = streams.made[es]]_vars

\* call c of a caching GET was in flight when the mutation m, whose route
\* invalidates the key of c, completed with a 2xx answer
InFlightAcross(c, m) ==
    /\ calls[c].pc \in Pending
    /\ CachingCall(calls[c])
    /\ Fetched2xx(calls[m])
    /\ m \notin calls[c].after
    /\ KeyMatches(CacheKeyOf(calls[c]), routes[calls[m].routeKey].invalidates)

\* C34: a caching GET that was in flight when a successful mutation
\* invalidating its key completed does not store its response in the cache
\* afterwards, so that no later GET is served data fetched before the
\* mutation.
C34_NoStaleWriteBack ==
    [][\A c, m \in Calls :
          InFlightAcross(c, m)
            => ~(Logged(calls'[c], "cache.set") /\ ~Logged(calls[c], "cache.set"))]_vars

\* the cache key computed from the configuration the transport received
SentKeyOf(call) == buildCacheKey(routes[call.routeKey], call.config, call.config.cache)

\* C35: the key under which a call looks up and stores is the key of the
\* request that was sent: it is computed from the params, query and cache
\* directive that the transport received after the request interceptors ran,
\* so the entry stored under a key holds the response of the URL the key
\* denotes.
C35_KeyDescribesRequestSent ==
    \A c \in Calls :
        (/\ calls[c].pc # "idle" /\ CachingCall(calls[c])
         /\ Logged(calls[c], "cache.get") /\ NetCalls(calls[c]) > 0)
            => /\ CacheKeyOf(calls[c]) = SentKeyOf(calls[c])
               /\ calls[c].url = origin \o CacheKeyOf(calls[c])

\* C36: a cached GET call is not served from a cache entry that was stored
\* from the response of a request to another base address than the current
\* one: the call that stored the entry went to the URL this call denotes.
C36_NoHitAcrossBaseURLs ==
    [][\A c, b \in Calls :
          (/\ ResolvesFromCache(c)
           /\ b # c
           /\ Logged(calls[b], "cache.set")
           /\ CacheKeyOf(calls[b]) = CacheKeyOf(calls'[c]))
            => calls[b].url = RequestUrl(calls'[c])]_vars

\* C37: when close() was called for an address and connect() for the same
\* address was called after it, before the close event of the connection
\* was dispatched, a connection for the address is in the table once the
\* close event has been processed.
C37_ReconnectNotLost ==
    [][\A ws \in 1..Len(sockets.made) :
          (/\ Closure(ws)
           /\ sockets.made[ws].closeCalled
           /\ sockets.last.op = "connect"
           /\ sockets.last.url = sockets.made[ws].url)
            => MapHas(sockets'.connections, sockets.made[ws].url)]_vars

\* C38: the table maps an address only to the connection made last for that
\* address, and only while the close event of that connection has not been
\* dispatched; the close event of a connection never removes or changes the
\* table entry of another connection.
C38_TableHoldsLatestLive ==
    /\ [](\A i \in 1..Len(sockets.connections) :
            LET url == sockets.connections[i].key
                ws == sockets.connections[i].value
            IN  /\ sockets.made[ws].url = url
                /\ ~sockets.made[ws].closeDispatched
                /\ \A other \in 1..Len(sockets.made) :
                      sockets.made[other].url = url => other <= ws)
    /\ [][\A ws \in 1..Len(sockets.made) :
            Closure(ws)
              => \A i \in 1..Len(sockets.connections) :
                    sockets.connections[i].value # ws
                       => \E j \in 1..Len(sockets'.connections) :
                             sockets'.connections[j] = sockets.connections[i]]_vars

\* the close event of the first connection to an address has been
\* dispatched, and the table holds the second connection to that address
C38_Witness ==
    /\ Len(sockets.made) = 2
    /\ sockets.made[1].url = sockets.made[2].url
    /\ sockets.made[1].closeDispatched
    /\ ~sockets.made[2].closeDispatched
    /\ WsSocket(sockets, sockets.made[2].url) = 2

\* C39: a call on a route that declares `invalidates`, answered by the
\* transport with a 2xx status, is not rejected because of its patterns,
\* whatever characters they hold (no response interceptor throwing).
C39_InvalidateNeverRaises ==
    [][\A c \in Calls :
          (/\ Answered(c)
           /\ Ok(calls'[c].response.status)
           /\ routes[calls[c].routeKey].invalidates # <<>>
           /\ \A i \in 1..Len(interceptors.response) :
                 interceptors.response[i] \notin ResponseThrowers)
            => calls'[c].pc # "rejected"]_vars

\* C40: set(k, v) on a key that a full cache (100 entries) holds already
\* replaces the value and the expiry of k only: the keys of the cache are
\* the same after it, and so is their number.
C40_SetPresentKeyEvictsNothing ==
    [][(/\ Operates("set")
        /\ ~client'.last.threw
        /\ Len(cache) = maxSize
        /\ client'.last.key \in CacheKeys(cache))
          => /\ CacheKeys(cache') = CacheKeys(cache)
             /\ Len(cache') = Len(cache)]_vars

====
